---- MODULE Spec2Model ----
(***************************************************************************)
(* A model of the tk-krita engine: the Krita host (documents, views,       *)
(* layer trees), the engine's active-document polling timer and context    *)
(* refresh, the scene-operation / frame-range / loader hooks, the publish  *)
(* collector and publish plugins, and the launcher / bootstrap pair.       *)
(*                                                                         *)
(* Every operation of the code is one action.  An action records, in the   *)
(* history variables lastOp / calls / result, which handler ran, the host  *)
(* and framework calls it made in order, and what it returned or raised.   *)
(***************************************************************************)
EXTENDS Integers, Sequences, FiniteSets, TLC

\* ------------------------------------------------------------------ bounds
MaxDocs == 2
MaxNodes == 2
MaxVersion == 4
MaxActions == 3

\* --------------------------------------------------------------- constants
NoDoc == 0
Docs == 1..MaxDocs
None == "None"
NoPath == ""

\* paths a document can be saved under, as the engine's refresh sees them
EnginePaths == {"rel.kra", "/p/shot2/b.kra", "/p/misc.kra", "/tmp/x.kra"}
Contexts == {"ctxProject", "ctxShot1", "ctxShot2"}

VARIABLES
    \* ---- host (Krita) state
    openDocs,       \* documents that have a view in the host
    activeDoc,      \* Krita.instance().activeDocument(), NoDoc when none
    fileName,       \* Document.fileName() per document, "" when never saved
    modified,       \* Document.modified() per document
    layerTree,      \* per document, the parent of each node below the root (0 = the root),
                    \* nodes numbered in creation order, siblings ordered by number
    clipRange,      \* per document, <<fullClipRangeStartTime, fullClipRangeEndTime>>
    batchmode,      \* Krita.instance().batchmode()
    canCreateMenu,  \* tk_krita.can_create_menu(): the host menu bar is ready
    \* ---- engine state
    active_doc,     \* KritaEngine.active_doc
    timerActive,    \* KritaEngine.active_doc_timer is running
    ctxSwitch,      \* krita.shotgun.active_document_context_switch ("unset" before first read, then "on"/"off")
    ctxSwitchSetting, \* engine setting active_document_context_switch
    currentEngine,  \* tank.platform.current_engine() is set
    engineCtx,      \* engine.context
    menu,           \* state of the Shotgun menu: "none", "enabled", "disabled"
    menuPending,    \* a QTimer.singleShot(200, create_shotgun_menu) is outstanding
    \* ---- launcher and bootstrap state
    platform,       \* sys.platform of the launcher process
    launcherCtx,    \* KritaLauncher.context
    env,            \* os.environ of the host process (the SGTK_* variables)
    hostProc,       \* "off", "starting" (launched, extension not yet run) or "running"
    engineName,     \* name of the engine started in the host, "" when none
    pluginDir,      \* content of each file of the host's user plugin directory
    \* ---- publish state
    itemKind,       \* the plugin the publish item belongs to: "session", "layer" or "layers"
    item,           \* item.properties of the publish item
    diskVersions,   \* the versions of the work file that exist on disk
    items,          \* the items the collector created under the root item, in order
    \* ---- loader state
    action_instances, \* the action instances generate_actions returned last
    \* ---- history of the last operation
    lastOp,         \* name of the handler that ran last
    calls,          \* the calls it made, in order
    result          \* what it returned, or the exception it raised

docVars == <<openDocs, activeDoc, fileName, modified, layerTree, clipRange>>
hostVars == <<docVars, batchmode, canCreateMenu>>
engineVars == <<active_doc, timerActive, ctxSwitch, ctxSwitchSetting, currentEngine,
                engineCtx, menu, menuPending>>
launchVars == <<platform, launcherCtx, env, hostProc, engineName, pluginDir>>
pubVars == <<itemKind, item, diskVersions>>
collVars == <<items>>
loaderVars == <<action_instances>>
pluginVars == <<pubVars, collVars, loaderVars>>
histVars == <<lastOp, calls, result>>
vars == <<hostVars, engineVars, launchVars, pluginVars, histVars>>

\* -------------------------------------------------- launcher environment
\* ENGINE_NAME of startup.py and startup/init.py
ENGINE_NAME == "tk-krita"
\* os.environ.get(name) of a variable that is not set
Unset == "<unset>"
EnvNames == {"SGTK_ENGINE", "SGTK_CONTEXT", "SGTK_FILE_TO_OPEN", "SGTK_MODULE_PATH"}
CleanEnv == [n \in EnvNames |-> IF n = "SGTK_MODULE_PATH" THEN "/sgtk/core" ELSE Unset]

\* files of resources/extensions, and the files the user plugin directory can hold
SrcFiles == {"krita_shotgun_extension/__init__.py",
             "krita_shotgun_extension/shotgun_bridge.py"}
PluginFiles == SrcFiles \cup {"other_plugin.py"}
Absent == "<absent>"
SrcContent == "bridge-v2"
Contents == {Absent, SrcContent, "bridge-v1"}

\* ------------------------------------------------------------ host helpers
\* the record of one call made by a handler: the operation, the document it
\* is made on (NoDoc when on no document) and its argument
Call(op, doc, arg) == [op |-> op, doc |-> doc, arg |-> arg]

\* os.path.abspath: a relative path is resolved against the working directory
Abspath(p) == IF p = "rel.kra" THEN "/p/shot1/rel.kra" ELSE p

\* tank.sgtk_from_path: TankError when the path belongs to no pipeline configuration
SgtkFromPathFails(p) == p \notin {"/p/shot1/a.kra", "/p/shot1/rel.kra", "/p/shot2/b.kra", "/p/misc.kra"}

\* tk.context_from_path: the context of the path, None when none can be derived
ContextFromPath(p) ==
    CASE p \in {"/p/shot1/a.kra", "/p/shot1/rel.kra"} -> "ctxShot1"
      [] p = "/p/shot2/b.kra" -> "ctxShot2"
      [] OTHER -> None

\* tk.context_from_entity_dictionary(engine.context.project)
ProjectContext == "ctxProject"

\* ---------------------------------------------------------- engine helpers
\* KritaEngine.has_ui
has_ui == ~batchmode

\* create_shotgun_menu that gives up when the menu bar is not ready
create_shotgun_menu_NoRetry(m, disabled) ==
    IF has_ui /\ canCreateMenu
    THEN [menu |-> IF disabled THEN "disabled" ELSE "enabled", pending |-> m.pending,
          calls |-> <<Call("create_menu", NoDoc, IF disabled THEN "disabled" ELSE "enabled")>>,
          ret |-> "True"]
    ELSE [menu |-> m.menu, pending |-> m.pending, calls |-> << >>,
          ret |-> IF has_ui THEN "True" ELSE "False"]

\* KritaEngine.create_shotgun_menu: the menu state and pending retry after the call
create_shotgun_menu(m, disabled) ==
    IF has_ui
    THEN IF canCreateMenu
         THEN [menu |-> IF disabled THEN "disabled" ELSE "enabled", pending |-> m.pending,
               calls |-> <<Call("create_menu", NoDoc, IF disabled THEN "disabled" ELSE "enabled")>>,
               ret |-> "True"]
         ELSE [menu |-> m.menu, pending |-> TRUE,
               calls |-> <<Call("singleShot", NoDoc, "create_shotgun_menu")>>, ret |-> "True"]
    ELSE [menu |-> m.menu, pending |-> m.pending, calls |-> << >>, ret |-> "False"]

\* KritaEngine.post_context_change (setting automatic_context_switch at its default True)
post_context_change(m, old, new) ==
    IF old # new
    THEN create_shotgun_menu(m, FALSE)
    ELSE [menu |-> m.menu, pending |-> m.pending, calls |-> << >>, ret |-> "False"]

\* refresh_engine that, when the path belongs to no pipeline configuration,
\* goes on with the project context instead of returning
refresh_engine_ProjectOnTankError(ccFails) ==
    LET m0 == [menu |-> menu, pending |-> menuPending]
        same == [ctx |-> engineCtx, menu |-> menu, pending |-> menuPending, calls |-> << >>]
        active_doc_path == IF activeDoc # NoDoc THEN fileName[activeDoc] ELSE NoPath
    IN  IF ~currentEngine THEN same
        ELSE IF active_doc_path = NoPath THEN same
        ELSE LET path == Abspath(active_doc_path)
                 current_context == engineCtx
                 derived == IF SgtkFromPathFails(path) THEN None ELSE ContextFromPath(path)
                 ctx == IF derived = None THEN ProjectContext ELSE derived
             IN  IF ctx # current_context
                 THEN IF ccFails
                      THEN LET r == create_shotgun_menu(m0, TRUE)
                           IN  [ctx |-> current_context, menu |-> r.menu,
                                pending |-> r.pending,
                                calls |-> <<Call("change_context", NoDoc, ctx),
                                            Call("display_warning", NoDoc, "no change")>>
                                          \o r.calls]
                      ELSE LET r == post_context_change(m0, current_context, ctx)
                           IN  [ctx |-> ctx, menu |-> r.menu, pending |-> r.pending,
                                calls |-> <<Call("change_context", NoDoc, ctx)>>
                                          \o r.calls]
                 ELSE same

\* refresh_engine: ccFails is whether engine.change_context raises TankError.
\* Yields the engine context, the menu and the calls made.
refresh_engine(ccFails) ==
    LET m0 == [menu |-> menu, pending |-> menuPending]
        same == [ctx |-> engineCtx, menu |-> menu, pending |-> menuPending, calls |-> << >>]
        active_doc_path == IF activeDoc # NoDoc THEN fileName[activeDoc] ELSE NoPath
    IN  IF ~currentEngine THEN same
        ELSE IF active_doc_path = NoPath THEN same
        ELSE LET path == Abspath(active_doc_path)
                 current_context == engineCtx
             IN  IF SgtkFromPathFails(path)
                 THEN [same EXCEPT !.calls = <<Call("display_warning", NoDoc, "no context")>>]
                 ELSE LET derived == ContextFromPath(path)
                          ctx == IF derived = None THEN ProjectContext ELSE derived
                      IN  IF ctx # current_context
                          THEN IF ccFails
                               THEN LET r == create_shotgun_menu(m0, TRUE)
                                    IN  [ctx |-> current_context, menu |-> r.menu,
                                         pending |-> r.pending,
                                         calls |-> <<Call("change_context", NoDoc, ctx),
                                                     Call("display_warning", NoDoc, "no change")>>
                                                   \o r.calls]
                               ELSE LET r == post_context_change(m0, current_context, ctx)
                                    IN  [ctx |-> ctx, menu |-> r.menu, pending |-> r.pending,
                                         calls |-> <<Call("change_context", NoDoc, ctx)>>
                                                   \o r.calls]
                          ELSE same

\* ------------------------------------------------------------------- Init
\* the host right after it has started: no document, menu bar not yet built
InitHost ==
    /\ openDocs = {}
    /\ activeDoc = NoDoc
    /\ fileName = [d \in Docs |-> NoPath]
    /\ modified = [d \in Docs |-> FALSE]
    /\ layerTree = [d \in Docs |-> << >>]
    /\ clipRange = [d \in Docs |-> <<0, 0>>]
    /\ batchmode = FALSE
    /\ canCreateMenu = FALSE

\* ------------------------------------------------------ publish item basics
\* item.properties.get(key) of a key that was never set
Missing == "<missing>"

\* a publish item as the collector creates it: work_template is set when the
\* collector's Work Template setting names a template
NewItem(work_template) ==
    [work_template |-> work_template,
     publish_template |-> Missing, export_template |-> Missing,
     layer_name_template |-> Missing,
     session_path |-> Missing, session_document |-> NoDoc, path |-> Missing,
     export_path |-> Missing, publish_path |-> Missing]

\* the settings of a publish plugin, every template setting at its default None
DefaultSettings ==
    [PublishTemplate |-> None, ExportTemplate |-> None, LayerNameTemplate |-> None]

\* no publish is going on
InitPublishIdle ==
    /\ itemKind = "session"
    /\ item = NewItem(Missing)
    /\ diskVersions = {}
    /\ items = << >>
    /\ action_instances = << >>

InitHist ==
    /\ lastOp = "init"
    /\ calls = << >>
    /\ result = None

\* the engine after start_engine: __init__, init_engine, pre_app_init, post_app_init
InitEngineStarted ==
    /\ active_doc = NoDoc
    /\ timerActive = FALSE
    /\ ctxSwitch = "unset"
    /\ currentEngine = TRUE
    /\ menu = "none"
    /\ menuPending = FALSE

\* the launch is over: start_toolkit has run and cleaned the environment
InitLaunched ==
    /\ platform = "win32"
    /\ launcherCtx = engineCtx
    /\ env = CleanEnv
    /\ hostProc = "running"
    /\ engineName = ENGINE_NAME
    /\ pluginDir = [f \in PluginFiles |-> IF f \in SrcFiles THEN SrcContent ELSE Absent]

Init ==
    /\ ctxSwitchSetting \in BOOLEAN
    /\ engineCtx \in Contexts
    /\ InitHost
    /\ InitHist
    /\ InitPublishIdle
    /\ InitEngineStarted
    /\ InitLaunched

\* ----------------------------------------------------- host (user) actions
Hist(op) == /\ lastOp' = op
            /\ calls' = << >>
            /\ result' = None

\* the user creates or opens a document in a new view, which becomes active
UserOpenView ==
    \E d \in Docs \ openDocs, p \in EnginePaths \cup {NoPath} :
        /\ openDocs' = openDocs \cup {d}
        /\ activeDoc' = d
        /\ fileName' = [fileName EXCEPT ![d] = p]
        /\ Hist("user_open")
        /\ UNCHANGED <<pluginVars, launchVars, modified, layerTree, clipRange, batchmode, canCreateMenu, engineVars>>

\* the user selects another view (or none has the focus)
UserSwitchView ==
    \E d \in openDocs :
        /\ d # activeDoc
        /\ activeDoc' = d
        /\ Hist("user_switch")
        /\ UNCHANGED <<pluginVars, launchVars, openDocs, fileName, modified, layerTree, clipRange, batchmode,
                       canCreateMenu, engineVars>>

\* the user saves the active document under another path
UserSaveAs ==
    \E p \in EnginePaths :
        /\ activeDoc # NoDoc
        /\ fileName[activeDoc] # p
        /\ fileName' = [fileName EXCEPT ![activeDoc] = p]
        /\ modified' = [modified EXCEPT ![activeDoc] = FALSE]
        /\ Hist("user_save_as")
        /\ UNCHANGED <<pluginVars, launchVars, openDocs, activeDoc, layerTree, clipRange, batchmode, canCreateMenu,
                       engineVars>>

\* the user closes the active document; another open view, if any, gets the focus
UserCloseView ==
    /\ activeDoc # NoDoc
    /\ openDocs' = openDocs \ {activeDoc}
    /\ \E d \in (openDocs \ {activeDoc}) \cup {NoDoc} :
          /\ (openDocs \ {activeDoc} # {} => d # NoDoc)
          /\ activeDoc' = d
    /\ fileName' = [fileName EXCEPT ![activeDoc] = NoPath]
    /\ modified' = [modified EXCEPT ![activeDoc] = FALSE]
    /\ layerTree' = [layerTree EXCEPT ![activeDoc] = << >>]
    /\ clipRange' = [clipRange EXCEPT ![activeDoc] = <<0, 0>>]
    /\ Hist("user_close")
    /\ UNCHANGED <<pluginVars, launchVars, batchmode, canCreateMenu, engineVars>>

\* the host main window finishes building its menu bar
HostMenuReady ==
    /\ ~canCreateMenu
    /\ canCreateMenu' = TRUE
    /\ Hist("host_menu_ready")
    /\ UNCHANGED <<pluginVars, launchVars, docVars, batchmode, engineVars>>

\* ---------------------------------------------------------- engine actions
\* KritaEngine.__get_active_document_context_switch
get_active_document_context_switch ==
    IF ctxSwitch = "unset" THEN ctxSwitchSetting ELSE ctxSwitch = "on"

\* KritaEngine.toggle_active_document_context_switch (with the property setter)
toggle_active_document_context_switch ==
    LET value == ~get_active_document_context_switch
    IN  /\ currentEngine
        /\ ctxSwitch' = IF value THEN "on" ELSE "off"
        /\ timerActive' = value
        /\ lastOp' = "toggle"
        /\ calls' = << >>
        /\ result' = IF value THEN "True" ELSE "False"
        /\ UNCHANGED <<pluginVars, launchVars, hostVars, active_doc, ctxSwitchSetting, currentEngine, engineCtx,
                       menu, menuPending>>

\* KritaEngine._on_active_doc_timer: what the tick does to (active_doc, refresh?)
OnTimerRefreshes(recorded, current) == recorded # current
OnTimerRecorded_Stale(recorded, current) == recorded
OnTimerRecorded(recorded, current) == IF recorded # current THEN current ELSE recorded

\* KritaEngine._on_active_doc_timer, fired by the running QTimer
on_active_doc_timer ==
    /\ timerActive
    /\ \E ccFails \in BOOLEAN :
        LET r == refresh_engine(ccFails)
        IN  /\ active_doc' = OnTimerRecorded(active_doc, activeDoc)
            /\ IF OnTimerRefreshes(active_doc, activeDoc)
               THEN /\ engineCtx' = r.ctx
                    /\ menu' = r.menu
                    /\ menuPending' = r.pending
                    /\ calls' = <<Call("refresh_engine", NoDoc, None)>> \o r.calls
               ELSE /\ UNCHANGED <<engineCtx, menu, menuPending>>
                    /\ calls' = << >>
    /\ lastOp' = "tick"
    /\ result' = None
    /\ UNCHANGED <<pluginVars, launchVars, hostVars, timerActive, ctxSwitch, ctxSwitchSetting, currentEngine>>

\* the single-shot timer set by create_shotgun_menu fires: create_shotgun_menu()
MenuRetry ==
    /\ menuPending
    /\ LET r == create_shotgun_menu([menu |-> menu, pending |-> FALSE], FALSE)
       IN  /\ menu' = r.menu
           /\ menuPending' = r.pending
           /\ calls' = r.calls
           /\ result' = r.ret
    /\ lastOp' = "menu_retry"
    /\ UNCHANGED <<pluginVars, launchVars, hostVars, active_doc, timerActive, ctxSwitch, ctxSwitchSetting,
                   currentEngine, engineCtx>>

HostNext == UserOpenView \/ UserSwitchView \/ UserSaveAs \/ UserCloseView \/ HostMenuReady

EngineNext ==
    \/ HostNext
    \/ toggle_active_document_context_switch
    \/ on_active_doc_timer
    \/ MenuRetry

SpecEngine == Init /\ [][EngineNext]_vars


\* ==================================================================== hooks
\* paths handed to the scene operations and to the loader actions by the apps
ScenePaths == {"/p/shot1/a.kra"}
LoaderPaths == {"/p/shot1/img.PNG", "/p/shot1/notes.txt"}
\* frame ranges handed to set_frame_range by the app
FrameRanges == {<<1, 24>>, <<10, 20>>}

\* the host state a hook works on, and the outcome of running one
HostRec == [openDocs |-> openDocs, activeDoc |-> activeDoc, fileName |-> fileName,
            modified |-> modified, layerTree |-> layerTree, clipRange |-> clipRange]
Outcome(h, cs, res) == [h |-> h, calls |-> cs, result |-> res]

\* the document id the host gives to the next document it creates
NewDoc(h) == CHOOSE d \in Docs \ h.openDocs : \A e \in Docs \ h.openDocs : d <= e
CanCreateDoc(h) == Docs \ h.openDocs # {}

\* Krita.openDocument(path) followed by activeWindow().addView(doc)
HostOpenWithView(h, d, path) ==
    [h EXCEPT !.openDocs = @ \cup {d}, !.activeDoc = d, !.fileName[d] = path,
              !.modified[d] = FALSE, !.layerTree[d] = << >>, !.clipRange[d] = <<0, 0>>]

\* Document.close() on the active document; another view, if any, gets the focus
HostClose(h, d, next) ==
    [h EXCEPT !.openDocs = @ \ {d}, !.activeDoc = next, !.fileName[d] = NoPath,
              !.modified[d] = FALSE, !.layerTree[d] = << >>, !.clipRange[d] = <<0, 0>>]
NextActive(h, d) ==
    IF h.openDocs \ {d} = {} THEN {NoDoc} ELSE h.openDocs \ {d}

\* Document.saveAs(path) when it succeeds; Document.setFileName(path)
HostSavedAs(h, d, path) == [h EXCEPT !.fileName[d] = path, !.modified[d] = FALSE]
HostSaved(h, d) == [h EXCEPT !.modified[d] = FALSE]

\* a reset that answered by what the host was left with
reset_returns_WhenEmpty(h) == IF h.openDocs = {} THEN "True" ELSE "False"

\* what 'reset' returns, h being the host after the close: always True
reset_returns(h) == "True"

\* tk-multi-workfiles2 SceneOperation.execute.
\* ok: whether the host's save / saveAs succeeds; next: the view focused after a close
WorkfilesSceneOperation(h, operation, file_path, ok, next) ==
    LET active == h.activeDoc
    IN  CASE operation = "current_path" ->
               Outcome(h, << >>, IF active # NoDoc THEN h.fileName[active] ELSE None)
          [] operation = "open" ->
               LET doc == NewDoc(h)
               IN  Outcome(HostOpenWithView(h, doc, file_path),
                           <<Call("openDocument", doc, file_path), Call("addView", doc, None),
                             Call("waitForDone", doc, None)>>, None)
          [] operation = "save" ->
               IF active # NoDoc
               THEN Outcome(IF ok THEN HostSaved(h, active) ELSE h,
                            <<Call("save", active, None), Call("waitForDone", active, None)>>,
                            None)
               ELSE Outcome(h, << >>, None)
          [] operation = "save_as" ->
               IF active # NoDoc
               THEN IF ok
                    THEN Outcome(HostSavedAs(h, active, file_path),
                                 <<Call("saveAs", active, file_path),
                                   Call("waitForDone", active, None),
                                   Call("setFileName", active, file_path)>>, None)
                    ELSE Outcome(h, <<Call("saveAs", active, file_path),
                                      Call("waitForDone", active, None)>>, None)
               ELSE Outcome(h, << >>, None)
          [] operation = "reset" ->
               IF active # NoDoc
               THEN Outcome(HostClose(h, active, next),
                            <<Call("waitForDone", active, None), Call("close", active, None)>>,
                            reset_returns(HostClose(h, active, next)))
               ELSE Outcome(h, << >>, reset_returns(h))
          [] operation = "prepare_new" ->
               Outcome(h, <<Call("trigger", NoDoc, "file_new")>>, "True")
          [] OTHER -> Outcome(h, << >>, None)

\* tk-multi-snapshot SceneOperation.execute
SnapshotSceneOperation(h, operation, file_path, ok) ==
    LET active == h.activeDoc
    IN  CASE operation = "current_path" ->
               Outcome(h, << >>, IF active # NoDoc THEN h.fileName[active] ELSE None)
          [] operation = "open" ->
               LET doc == NewDoc(h)
               IN  Outcome(HostOpenWithView(h, doc, file_path),
                           <<Call("openDocument", doc, file_path), Call("addView", doc, None),
                             Call("waitForDone", doc, None)>>, None)
          [] operation = "save" ->
               IF active # NoDoc
               THEN Outcome(IF ok THEN HostSaved(h, active) ELSE h,
                            <<Call("save", active, None), Call("waitForDone", active, None)>>,
                            None)
               ELSE Outcome(h, << >>, None)
          [] OTHER -> Outcome(h, << >>, None)

Operations == {"current_path", "open", "save", "save_as", "reset", "prepare_new"}

\* FrameOperation.get_frame_range
get_frame_range(h) ==
    LET current == IF h.activeDoc # NoDoc THEN h.clipRange[h.activeDoc] ELSE <<0, 0>>
    IN  Outcome(h, << >>, ToString(current))

\* FrameOperation.set_frame_range
set_frame_range(h, in_frame, out_frame) ==
    IF h.activeDoc # NoDoc
    THEN Outcome([h EXCEPT !.clipRange[h.activeDoc] = <<in_frame, out_frame>>],
                 <<Call("setFullClipRangeStartTime", h.activeDoc, ToString(in_frame)),
                   Call("setFullClipRangeEndTime", h.activeDoc, ToString(out_frame))>>, None)
    ELSE Outcome(h, << >>, None)

\* os.path.splitext(path)[1].lower()
LowerExt(path) ==
    CASE path = "/p/shot1/a.kra" -> ".kra"
      [] path = "/p/shot1/img.PNG" -> ".png"
      [] path = "/p/shot1/notes.txt" -> ".txt"
      [] OTHER -> ""

\* KRITA_SUPPORTED_FORMATS (the extensions the model's paths can have)
KRITA_SUPPORTED_FORMATS == {".kra", ".png", ".jpg", ".exr", ".psd", ".tif"}

\* KritaActions._is_a_supported_extension
is_a_supported_extension(path) == LowerExt(path) \in KRITA_SUPPORTED_FORMATS

open_as_document_NoWait(h, path) ==
    LET doc == NewDoc(h)
    IN  Outcome(HostOpenWithView(h, doc, path),
                <<Call("openDocument", doc, path), Call("addView", doc, None)>>, None)

\* KritaActions._open_as_document
open_as_document(h, path) ==
    LET doc == NewDoc(h)
    IN  Outcome(HostOpenWithView(h, doc, path),
                <<Call("openDocument", doc, path), Call("addView", doc, None),
                  Call("waitForDone", doc, None)>>, None)

\* KritaActions._open_as_layer: the file is opened as a second, view-less
\* document whose pixels are pasted into a new paint layer of the active one
open_as_layer(h, path) ==
    LET doc == h.activeDoc
        layer_doc == NewDoc(h)
    IN  IF doc = NoDoc
        THEN Outcome(h, << >>, "False")
        ELSE Outcome([h EXCEPT !.layerTree[doc] = Append(@, 0)],
                     <<Call("createNode", doc, "paintlayer"), Call("addChildNode", doc, None),
                       Call("openDocument", layer_doc, path),
                       Call("waitForDone", layer_doc, None),
                       Call("pixelData", layer_doc, None),
                       Call("setPixelData", doc, None), Call("waitForDone", doc, None),
                       Call("setActiveNode", doc, None), Call("refreshProjection", doc, None),
                       Call("waitForDone", doc, None), Call("close", layer_doc, None)>>,
                     None)

import_animation_frames_Unguarded(h, path) ==
    Outcome(h, <<Call("importAnimation", h.activeDoc, path),
                 Call("waitForDone", h.activeDoc, None)>>, None)

\* KritaActions._import_animation_frames
import_animation_frames(h, path) ==
    LET doc == h.activeDoc
    IN  IF doc = NoDoc
        THEN Outcome(h, << >>, "False")
        ELSE Outcome(h,
                     <<Call("importAnimation", doc, path), Call("waitForDone", doc, None)>>,
                     None)

ActionNames == {"open_image", "open_as_layer", "import_animation_frames"}

\* KritaActions.execute_action
execute_action(h, name, path) ==
    IF name \in ActionNames /\ ~is_a_supported_extension(path)
    THEN Outcome(h, << >>, "raise Exception: Unsupported file extension")
    ELSE CASE name = "open_image" -> open_as_document(h, path)
           [] name = "open_as_layer" -> [open_as_layer(h, path) EXCEPT !.result = None]
           [] name = "import_animation_frames" ->
                [import_animation_frames(h, path) EXCEPT !.result = None]
           [] OTHER -> Outcome(h, << >>, None)

\* whether the host can still create the documents / nodes the action needs
ActionFits(h, name) ==
    /\ name \in {"open_image", "open_as_layer"} => CanCreateDoc(h)
    /\ (name = "open_as_layer" /\ h.activeDoc # NoDoc) => Len(h.layerTree[h.activeDoc]) < MaxNodes

\* _save_session of the session publish plugin
save_session(h, path, ok) ==
    LET active_doc_ == h.activeDoc
    IN  IF active_doc_ = NoDoc
        THEN Outcome(h, <<Call("ensure_folder_exists", NoDoc, path)>>,
                     "raise AttributeError")
        ELSE IF ok
             THEN Outcome(HostSavedAs(h, active_doc_, path),
                          <<Call("ensure_folder_exists", NoDoc, path),
                            Call("saveAs", active_doc_, path),
                            Call("waitForDone", active_doc_, None),
                            Call("setFileName", active_doc_, path)>>, None)
             ELSE Outcome(h, <<Call("ensure_folder_exists", NoDoc, path),
                               Call("saveAs", active_doc_, path),
                               Call("waitForDone", active_doc_, None)>>, None)

\* the state after a hook has run with outcome r
Apply(op, r) ==
    /\ openDocs' = r.h.openDocs
    /\ activeDoc' = r.h.activeDoc
    /\ fileName' = r.h.fileName
    /\ modified' = r.h.modified
    /\ layerTree' = r.h.layerTree
    /\ clipRange' = r.h.clipRange
    /\ lastOp' = op
    /\ calls' = r.calls
    /\ result' = r.result

HookWorkfiles ==
    \E operation \in Operations :
      \E file_path \in (IF operation \in {"open", "save_as"} THEN ScenePaths ELSE {NoPath}),
         ok \in (IF operation \in {"save", "save_as"} /\ activeDoc # NoDoc
                 THEN BOOLEAN ELSE {TRUE}),
         next \in (IF operation = "reset" THEN NextActive(HostRec, activeDoc) ELSE {NoDoc}) :
        /\ operation = "open" => CanCreateDoc(HostRec)
        /\ Apply("workfiles:" \o operation,
                 WorkfilesSceneOperation(HostRec, operation, file_path, ok, next))
        /\ UNCHANGED <<pluginVars, launchVars, batchmode, canCreateMenu, engineVars>>

HookSnapshot ==
    \E operation \in Operations :
      \E file_path \in (IF operation = "open" THEN ScenePaths ELSE {NoPath}),
         ok \in (IF operation = "save" /\ activeDoc # NoDoc THEN BOOLEAN ELSE {TRUE}) :
        /\ operation = "open" => CanCreateDoc(HostRec)
        /\ Apply("snapshot:" \o operation,
                 SnapshotSceneOperation(HostRec, operation, file_path, ok))
        /\ UNCHANGED <<pluginVars, launchVars, batchmode, canCreateMenu, engineVars>>

HookGetFrameRange ==
    /\ Apply("get_frame_range", get_frame_range(HostRec))
    /\ UNCHANGED <<pluginVars, launchVars, batchmode, canCreateMenu, engineVars>>

HookSetFrameRange ==
    \E range \in FrameRanges :
        /\ Apply("set_frame_range", set_frame_range(HostRec, range[1], range[2]))
        /\ UNCHANGED <<pluginVars, launchVars, batchmode, canCreateMenu, engineVars>>

LoaderOpenAsLayer ==
    \E path \in LoaderPaths :
        /\ ActionFits(HostRec, "open_as_layer")
        /\ Apply("_open_as_layer", open_as_layer(HostRec, path))
        /\ UNCHANGED <<pluginVars, launchVars, batchmode, canCreateMenu, engineVars>>

LoaderImportAnimationFrames ==
    \E path \in LoaderPaths :
        /\ Apply("_import_animation_frames", import_animation_frames(HostRec, path))
        /\ UNCHANGED <<pluginVars, launchVars, batchmode, canCreateMenu, engineVars>>

LoaderExecuteAction ==
    \E name \in ActionNames, path \in LoaderPaths :
        /\ ActionFits(HostRec, name)
        /\ Apply("execute_action:" \o name, execute_action(HostRec, name, path))
        /\ UNCHANGED <<pluginVars, launchVars, batchmode, canCreateMenu, engineVars>>

SaveSession ==
    \E path \in ScenePaths, ok \in (IF activeDoc # NoDoc THEN BOOLEAN ELSE {TRUE}) :
        /\ Apply("_save_session", save_session(HostRec, path, ok))
        /\ UNCHANGED <<pluginVars, launchVars, batchmode, canCreateMenu, engineVars>>

\* the user closes the active view or selects another one
HooksUser ==
    \/ UserSwitchView
    \/ UserCloseView

\* =================================================== launcher and bootstrap
\* sgtk.context.serialize / sgtk.context.deserialize: the context travels as a
\* string; a string that is no serialized context cannot be deserialized
Serialize(ctx) == "ctx:" \o ctx
Deserializable(str) == \E c \in Contexts : Serialize(c) = str
Deserialize(str) == CHOOSE c \in Contexts : Serialize(c) = str

\* os.environ.get(name) is falsy: the variable is missing or empty
Falsy(value) == value = Unset \/ value = ""

\* copytree_multi on one regular file: fails holds the files whose copy2 raises
CopiedFile(dir, f, fails) ==
    IF dir[f] # Absent
    THEN IF dir[f] # SrcContent
         THEN (IF f \in fails THEN Absent ELSE SrcContent)
         ELSE dir[f]
    ELSE (IF f \in fails THEN Absent ELSE SrcContent)

\* the files of the source tree in the order os.listdir gives them
SrcFileList == <<"krita_shotgun_extension/__init__.py",
                 "krita_shotgun_extension/shotgun_bridge.py">>

\* a copy that replaces every file the destination has, without comparing
CopyCalls_NoCompare(dir, f) ==
    IF dir[f] # Absent
    THEN <<Call("unlink", NoDoc, f), Call("copy2", NoDoc, f)>>
    ELSE <<Call("copy2", NoDoc, f)>>

\* the file calls copytree_multi makes for one source file: an existing
\* destination is compared (sha256) and replaced only when it differs
CopyCalls(dir, f) ==
    IF dir[f] # Absent
    THEN IF dir[f] # SrcContent
         THEN <<Call("unlink", NoDoc, f), Call("copy2", NoDoc, f)>>
         ELSE << >>
    ELSE <<Call("copy2", NoDoc, f)>>

RECURSIVE CopyCallsOf(_, _)
CopyCallsOf(dir, files) ==
    IF files = << >> THEN << >>
    ELSE CopyCalls(dir, Head(files)) \o CopyCallsOf(dir, Tail(files))

\* copytree_multi(src, dst): the destination afterwards, the errors collected
\* and the file calls made
copytree_multi(dir, fails) ==
    [dir |-> [f \in PluginFiles |-> IF f \in SrcFiles THEN CopiedFile(dir, f, fails)
                                                       ELSE dir[f]],
     errors |-> {f \in SrcFiles : f \in fails /\ dir[f] # SrcContent},
     calls |-> CopyCallsOf(dir, SrcFileList)]

RequiredEnv_ProjectContext(context, file_to_open) ==
    [n \in EnvNames |->
        CASE n = "SGTK_ENGINE" -> ENGINE_NAME
          [] n = "SGTK_CONTEXT" -> Serialize(ProjectContext)
          [] n = "SGTK_MODULE_PATH" -> "/sgtk/core"
          [] n = "SGTK_FILE_TO_OPEN" -> IF file_to_open # NoPath THEN file_to_open ELSE Unset]

\* the environment KritaLauncher.prepare_launch builds
RequiredEnv(context, file_to_open) ==
    [n \in EnvNames |->
        CASE n = "SGTK_ENGINE" -> ENGINE_NAME
          [] n = "SGTK_CONTEXT" -> Serialize(context)
          [] n = "SGTK_MODULE_PATH" -> "/sgtk/core"
          [] n = "SGTK_FILE_TO_OPEN" -> IF file_to_open # NoPath THEN file_to_open ELSE Unset]

\* the platforms for which the launcher defines executable templates
Platforms == {"win32", "darwin", "linux"}

\* KritaLauncher.prepare_launch, then the launch app starting the host with
\* the returned environment
prepare_launch ==
    \E file_to_open \in ScenePaths \cup {NoPath}, fails \in {{}} \cup {{f} : f \in SrcFiles} :
        LET copied == copytree_multi(pluginDir, fails)
        IN  /\ hostProc = "off"
            /\ lastOp' = "prepare_launch"
            /\ IF platform # "win32"
               THEN /\ result' = "raise NotImplementedError"
                    /\ calls' = << >>
                    /\ UNCHANGED <<env, hostProc, pluginDir>>
               ELSE /\ pluginDir' = copied.dir
                    /\ calls' = <<Call("ensure_scripts_up_to_date", NoDoc, None)>>
                                 \o copied.calls
                    /\ IF copied.errors # {}
                       THEN /\ result' = "raise shutil.Error"
                            /\ UNCHANGED <<env, hostProc>>
                       ELSE /\ result' = "LaunchInformation"
                            /\ env' = RequiredEnv(launcherCtx, file_to_open)
                            /\ hostProc' = "starting"
            /\ UNCHANGED <<pluginVars, hostVars, engineVars, platform, launcherCtx, engineName>>

\* environments of a host that was not started by prepare_launch
ForeignEnvs ==
    {e \in [EnvNames -> {Unset, "", ENGINE_NAME, Serialize(ProjectContext), "garbage"}] :
        /\ e["SGTK_ENGINE"] \in {Unset, "", ENGINE_NAME}
        /\ e["SGTK_CONTEXT"] \in {Unset, "", Serialize(ProjectContext), "garbage"}
        /\ e["SGTK_FILE_TO_OPEN"] = Unset
        /\ e["SGTK_MODULE_PATH"] \in {Unset, "garbage"}}

\* the host is started by hand, or with a damaged environment
HostStartForeign ==
    \E e \in ForeignEnvs :
        /\ hostProc = "off"
        /\ env' = e
        /\ hostProc' = "starting"
        /\ Hist("host_start")
        /\ UNCHANGED <<pluginVars, hostVars, engineVars, platform, launcherCtx, engineName, pluginDir>>

\* start_toolkit_classic: whether an engine is started, and the errors displayed.
\* startFails: sgtk.platform.start_engine raises
start_toolkit_classic(e, startFails) ==
    LET env_engine == e["SGTK_ENGINE"]
        env_context == e["SGTK_CONTEXT"]
        none == [started |-> FALSE, name |-> "", ctx |-> None, calls |-> << >>]
    IN  IF Falsy(env_engine)
        THEN [none EXCEPT !.calls = <<Call("display_error", NoDoc, "Missing SGTK_ENGINE")>>]
        ELSE IF Falsy(env_context)
        THEN [none EXCEPT !.calls = <<Call("display_error", NoDoc, "Missing SGTK_CONTEXT")>>]
        ELSE IF ~Deserializable(env_context)
        THEN [none EXCEPT !.calls = <<Call("display_error", NoDoc, "Could not create context")>>]
        ELSE IF startFails
        THEN [none EXCEPT !.calls = <<Call("start_engine", NoDoc, env_engine),
                                      Call("display_error", NoDoc, "Could not start engine")>>]
        ELSE [started |-> TRUE, name |-> env_engine, ctx |-> Deserialize(env_context),
              calls |-> <<Call("start_engine", NoDoc, env_engine)>>]

\* the variables start_toolkit removes from the environment
CleanedEnv(e) ==
    [n \in EnvNames |-> IF n \in {"SGTK_ENGINE", "SGTK_CONTEXT", "SGTK_FILE_TO_OPEN"}
                        THEN Unset ELSE e[n]]

\* ShotgunBridge.createActions -> bootstrap -> start_toolkit, run by the host
\* once its extension is loaded
start_toolkit ==
    \E startFails \in BOOLEAN :
        LET classic == start_toolkit_classic(env, startFails)
            file_to_open == env["SGTK_FILE_TO_OPEN"]
            doc == NewDoc(HostRec)
            opened == HostOpenWithView(HostRec, doc, file_to_open)
        IN  /\ hostProc = "starting"
            /\ hostProc' = "running"
            /\ lastOp' = "start_toolkit"
            /\ result' = None
            /\ IF Falsy(env["SGTK_MODULE_PATH"])
               THEN /\ calls' = <<Call("qWarning", NoDoc, "not a Shotgun environment")>>
                    /\ UNCHANGED <<docVars, env, currentEngine, engineName, engineCtx>>
               ELSE /\ currentEngine' = classic.started
                    /\ engineName' = classic.name
                    /\ engineCtx' = classic.ctx
                    /\ env' = CleanedEnv(env)
                    /\ IF ~Falsy(file_to_open)
                       THEN /\ calls' = classic.calls \o
                                       <<Call("openDocument", doc, file_to_open),
                                         Call("addView", doc, None),
                                         Call("waitForDone", doc, None)>>
                            /\ openDocs' = opened.openDocs
                            /\ activeDoc' = opened.activeDoc
                            /\ fileName' = opened.fileName
                            /\ UNCHANGED <<modified, layerTree, clipRange>>
                       ELSE /\ calls' = classic.calls
                            /\ UNCHANGED docVars
            /\ UNCHANGED <<pluginVars, batchmode, canCreateMenu, active_doc, timerActive, ctxSwitch,
                           ctxSwitchSetting, menu, menuPending, platform, launcherCtx,
                           pluginDir>>

\* the user quits the host
HostQuit ==
    /\ hostProc = "running"
    /\ hostProc' = "off"
    /\ currentEngine' = FALSE
    /\ engineName' = ""
    /\ engineCtx' = None
    /\ env' = [n \in EnvNames |-> Unset]
    /\ openDocs' = {}
    /\ activeDoc' = NoDoc
    /\ fileName' = [d \in Docs |-> NoPath]
    /\ Hist("host_quit")
    /\ UNCHANGED <<pluginVars, modified, layerTree, clipRange, batchmode, canCreateMenu, active_doc,
                   timerActive, ctxSwitch, ctxSwitchSetting, menu, menuPending, platform,
                   launcherCtx, pluginDir>>

\* before the launch: no host process, no engine
InitNotLaunched ==
    /\ env = [n \in EnvNames |-> Unset]
    /\ hostProc = "off"
    /\ engineName = ""
    /\ engineCtx = None
    /\ active_doc = NoDoc
    /\ timerActive = FALSE
    /\ ctxSwitch = "unset"
    /\ ctxSwitchSetting = FALSE
    /\ currentEngine = FALSE
    /\ menu = "none"
    /\ menuPending = FALSE

InitLaunch ==
    /\ platform \in Platforms
    /\ launcherCtx \in Contexts
    /\ pluginDir \in {d \in [PluginFiles -> Contents] : d["other_plugin.py"] # SrcContent}
    /\ InitNotLaunched
    /\ InitHost
    /\ InitHist
    /\ InitPublishIdle

LaunchNext ==
    \/ prepare_launch
    \/ HostStartForeign
    \/ start_toolkit
    \/ HostQuit

SpecLaunch == InitLaunch /\ [][LaunchNext]_vars

\* ------------------------------------------------- hooks in a launched host
HooksNext ==
    \/ prepare_launch
    \/ start_toolkit
    \/ /\ hostProc = "running"
       /\ currentEngine
       /\ \/ HooksUser
          \/ HookWorkfiles
          \/ HookSnapshot
          \/ HookGetFrameRange
          \/ HookSetFrameRange
          \/ LoaderOpenAsLayer
          \/ LoaderImportAnimationFrames
          \/ LoaderExecuteAction
          \/ SaveSession

InitHooks ==
    /\ platform = "win32"
    /\ launcherCtx = ProjectContext
    /\ pluginDir = [f \in PluginFiles |-> IF f \in SrcFiles THEN SrcContent ELSE Absent]
    /\ InitNotLaunched
    /\ InitHost
    /\ InitHist
    /\ InitPublishIdle

SpecHooks == InitHooks /\ [][HooksNext]_vars

\* ---------------------------------------------------------- publish plugins
\* the versions a work file path can carry
WorkPath(v) == "/p/shot1/work/a.v" \o ToString(v) \o ".kra"
\* the file names the session document can have, one of them not normalized
RawWorkPath == "/p/shot1/work//a.v1.kra"
PubPaths == {RawWorkPath, WorkPath(2), "/tmp/b.kra"}
\* the name of the node of a krita.layer item (item.properties["node_name"])
NodeName == "bg"
\* the names of the nodes of a krita.layers item (item.properties["nodes"])
NodeNames == <<"bg", "fg">>

\* sgtk.util.ShotgunPath.normalize: no double separators
Normalize(p) == IF p = RawWorkPath THEN WorkPath(1) ELSE p

\* the version number in a path, 0 when the path has none
PathVersion(p) ==
    CASE p = "/p/shot1/work/a.v1.kra" -> 1
      [] p = "/p/shot1/work/a.v2.kra" -> 2
      [] p = "/p/shot1/work/a.v3.kra" -> 3
      [] p = "/p/shot1/work/a.v4.kra" -> 4
      [] p = "/p/shot1/work/a.v5.kra" -> 5
      [] p = "/p/shot1/work/a.v6.kra" -> 6
      [] OTHER -> 0

\* os.path.dirname and os.path.basename
Dirname(p) == IF PathVersion(p) > 0 THEN "/p/shot1/work" ELSE "/tmp"
Basename(p) == IF PathVersion(p) > 0 THEN "a.v" \o ToString(PathVersion(p)) \o ".kra" ELSE "b.kra"

\* the templates of templates.yml, and the names a setting can hold
KnownTemplates == {"krita_work", "krita_export", "krita_publish", "krita_strict",
                   "krita_layer_name"}
PublishTemplateValues == {None, "krita_publish", "krita_gone"}
ExportTemplateValues == {None, "krita_export", "krita_strict", "krita_gone"}
LayerNameTemplateValues == {None, "krita_layer_name", "krita_gone"}
\* the work_template the collector leaves on an item of each kind: it does
\* not create a layer or layers item without one
WorkTemplates(kind) == IF kind = "session" THEN {None, "krita_work"} ELSE {"krita_work"}

\* engine.get_template_by_name: None for a name templates.yml does not have
get_template_by_name(name) == IF name \in KnownTemplates THEN name ELSE None

\* work_template.validate(path)
WorkValidate(p) == PathVersion(p) > 0
\* template.missing_keys(work_fields): krita_strict needs a key no work file has
MissingKeys(template) == template = "krita_strict"
\* template.apply_fields(work_fields), work_fields taken from the session path
ApplyFields(template, p, name) ==
    CASE template = "krita_export" ->
            "/p/shot1/export/v" \o ToString(PathVersion(p)) \o "/" \o name
      [] template = "krita_publish" ->
            "/p/shot1/publish/v" \o ToString(PathVersion(p)) \o "/" \o name
      [] OTHER -> name \o ".v" \o ToString(PathVersion(p)) \o ".tif"

\* a value Python takes as true
Truthy(x) == x \notin {Missing, None, NoPath}

\* the outcome of a plugin method: the item after it, what it returned or
\* raised, the calls it made
PR(it, res, cs) == [it |-> it, res |-> res, calls |-> cs]

MissingTemplateError(label) ==
    "raise TankError: Missing " \o label \o " Template in templates.yml"
PluginRaises == {MissingTemplateError("Publish"), MissingTemplateError("Export"),
                 MissingTemplateError("Layer Name"),
                 "raise Exception: no active document", "raise Exception: session not saved",
                 "raise Exception: next version exists",
                 "raise KeyError: session_path", "raise KeyError: node_name",
                 "raise NameError: session_path_dir", "raise AttributeError: rootNode",
                 "raise TankError: Failed to copy"}
Raised(r) == r.res \in PluginRaises

\* run F on the item r left, unless r raised; the calls accumulate
Then(r, F(_)) ==
    IF Raised(r) THEN r
    ELSE LET n == F(r.it) IN PR(n.it, n.res, r.calls \o n.calls)

\* get_publish_template
get_publish_template_CachesFirst(it, st) ==
    LET template == get_template_by_name(st.PublishTemplate)
        cached == [it EXCEPT !.publish_template = template]
    IN  IF Truthy(it.publish_template) THEN PR(it, it.publish_template, << >>)
        ELSE IF Truthy(st.PublishTemplate) /\ template = None
             THEN PR(cached, MissingTemplateError("Publish"), << >>)
             ELSE PR(cached, template, << >>)

get_publish_template(it, st) ==
    IF Truthy(it.publish_template) THEN PR(it, it.publish_template, << >>)
    ELSE IF Truthy(st.PublishTemplate)
         THEN LET template == get_template_by_name(st.PublishTemplate)
                  looked == <<Call("get_template_by_name", NoDoc, st.PublishTemplate)>>
              IN  IF template = None
                  THEN PR(it, MissingTemplateError("Publish"), looked)
                  ELSE PR([it EXCEPT !.publish_template = template], template, looked)
         ELSE PR([it EXCEPT !.publish_template = None], None, << >>)

\* get_export_template
get_export_template(it, st) ==
    IF Truthy(it.export_template) THEN PR(it, it.export_template, << >>)
    ELSE IF Truthy(st.ExportTemplate)
         THEN LET template == get_template_by_name(st.ExportTemplate)
                  looked == <<Call("get_template_by_name", NoDoc, st.ExportTemplate)>>
              IN  IF template = None
                  THEN PR(it, MissingTemplateError("Export"), looked)
                  ELSE PR([it EXCEPT !.export_template = template], template, looked)
         ELSE PR([it EXCEPT !.export_template = None], None, << >>)

\* get_layer_name_template
get_layer_name_template(it, st) ==
    IF Truthy(it.layer_name_template) THEN PR(it, it.layer_name_template, << >>)
    ELSE IF Truthy(st.LayerNameTemplate)
         THEN LET template == get_template_by_name(st.LayerNameTemplate)
                  looked == <<Call("get_template_by_name", NoDoc, st.LayerNameTemplate)>>
              IN  IF template = None
                  THEN PR(it, MissingTemplateError("Layer Name"), looked)
                  ELSE PR([it EXCEPT !.layer_name_template = template], template, looked)
         ELSE PR([it EXCEPT !.layer_name_template = None], None, << >>)

\* get_path_from_work_template: the layer plugin reads session_path with [],
\* the layers plugin with .get; the layer plugin names the node in the fields
get_path_from_work_template(kind, it, template, name) ==
    IF kind = "layer" /\ it.session_path = Missing
    THEN PR(it, "raise KeyError: session_path", << >>)
    ELSE IF Truthy(it.work_template) /\ Truthy(template)
         THEN IF WorkValidate(it.session_path)
              THEN IF ~MissingKeys(template)
                   THEN PR(it, ApplyFields(template, it.session_path, name),
                           <<Call("apply_fields", NoDoc, template)>>)
                   ELSE PR(it, None, <<Call("logger.warning", NoDoc, "missing keys")>>)
              ELSE PR(it, None, <<Call("logger.warning", NoDoc, "did not match work template")>>)
         ELSE PR(it, None, << >>)

\* the name field the work fields carry when a plugin resolves a path
FieldName(kind) == IF kind = "layer" THEN NodeName ELSE "a"

\* the default export location the code means to build when no path is
\* resolved: <directory of the work file>/layers/<work file name>[/<node>.png]
DefaultExportPath(kind, session_path) ==
    Dirname(session_path) \o "/layers/" \o Basename(session_path)
        \o (IF kind = "layer" THEN "/" \o NodeName \o ".png" ELSE "")

\* get_export_path, the part after the export path could not be resolved: the
\* layers item has no node_name property, and session_path_dir is a name the
\* function never binds
default_export_path(kind, it) ==
    IF kind = "layers" THEN "raise KeyError: node_name"
    ELSE IF it.session_path = Missing THEN "raise KeyError: session_path"
    ELSE "raise NameError: session_path_dir"

\* get_export_path
get_export_path_NoCache(kind, it, st) ==
    LET resolved == Then(get_export_template(it, st),
                         LAMBDA i : get_path_from_work_template(kind, i, i.export_template,
                                                                FieldName(kind)))
    IN  IF Raised(resolved) THEN resolved
        ELSE IF ~Truthy(resolved.res)
             THEN PR(resolved.it, default_export_path(kind, resolved.it), resolved.calls)
             ELSE PR([resolved.it EXCEPT !.export_path = resolved.res], resolved.res,
                     resolved.calls)

get_export_path(kind, it, st) ==
    IF Truthy(it.export_path) THEN PR(it, it.export_path, << >>)
    ELSE LET resolved == Then(get_export_template(it, st),
                              LAMBDA i : get_path_from_work_template(kind, i, i.export_template,
                                                                     FieldName(kind)))
         IN  IF Raised(resolved) THEN resolved
             ELSE IF ~Truthy(resolved.res)
                  THEN PR(resolved.it, default_export_path(kind, resolved.it), resolved.calls)
                  ELSE PR([resolved.it EXCEPT !.export_path = resolved.res], resolved.res,
                          resolved.calls)

\* get_publish_path
get_publish_path(kind, it, st) ==
    IF Truthy(it.publish_path) THEN PR(it, it.publish_path, << >>)
    ELSE LET resolved == Then(get_publish_template(it, st),
                              LAMBDA i : get_path_from_work_template(kind, i, i.publish_template,
                                                                     FieldName(kind)))
             path == IF Raised(resolved) \/ Truthy(resolved.res) THEN resolved
                     ELSE Then(PR(resolved.it, None, resolved.calls),
                               LAMBDA i : get_export_path(kind, i, st))
         IN  IF Raised(path) THEN path
             ELSE PR([path.it EXCEPT !.publish_path = path.res], path.res, path.calls)

\* the log record of an error or warning that carries an action button
SaveAsButton == "Save As..."

session_validate_SetsPathFirst(h, it) ==
    LET document == h.activeDoc
        session_path == h.fileName[document]
        set == [it EXCEPT !.session_path = Normalize(session_path),
                          !.session_document = document,
                          !.path = Normalize(session_path)]
    IN  IF document = NoDoc
        THEN PR(it, "raise Exception: no active document",
                <<Call("logger.error", NoDoc, None)>>)
        ELSE IF ~Truthy(session_path)
             THEN PR(set, "raise Exception: session not saved",
                     <<Call("logger.error", document, SaveAsButton)>>)
             ELSE PR(set, None,
                     IF h.modified[document]
                     THEN <<Call("logger.warn", document, SaveAsButton)>> ELSE << >>)

\* session_validate, the same in the three plugins
session_validate(h, it) ==
    LET document == h.activeDoc
        session_path == h.fileName[document]
        warned == IF h.modified[document]
                  THEN <<Call("logger.warn", document, SaveAsButton)>> ELSE << >>
    IN  IF document = NoDoc
        THEN PR(it, "raise Exception: no active document",
                <<Call("logger.error", NoDoc, None)>>)
        ELSE IF ~Truthy(session_path)
             THEN PR(it, "raise Exception: session not saved",
                     <<Call("logger.error", document, SaveAsButton)>>)
             ELSE PR([it EXCEPT !.session_path = Normalize(session_path),
                                !.session_document = document,
                                !.path = Normalize(session_path)],
                     None, warned)

\* templates_validate: the getters each plugin has, in the order it calls them
templates_validate(kind, it, st) ==
    LET matched == IF Truthy(it.work_template) /\ ~WorkValidate(it.session_path)
                   THEN <<Call("logger.warning", NoDoc, SaveAsButton)>> ELSE << >>
        start == PR(it, None, matched)
        export == IF kind = "session" THEN start
                  ELSE Then(start, LAMBDA i : get_export_template(i, st))
        layer_name == IF kind # "layers" THEN export
                      ELSE Then(export, LAMBDA i : get_layer_name_template(i, st))
        publish == Then(layer_name, LAMBDA i : get_publish_template(i, st))
    IN  IF Raised(publish) THEN publish ELSE PR(publish.it, None, publish.calls)

BoolStr(b) == IF b THEN "True" ELSE "False"

\* _batch_mode(True) around _export_layer of each path: the calls made
export_layers_ThenWait(document, paths, bm) ==
    <<Call("setBatchmode", NoDoc, "True")>>
        \o [i \in 1..Len(paths) |-> Call("node.save", document, paths[i])]
        \o <<Call("setBatchmode", NoDoc, BoolStr(bm)), Call("waitForDone", document, None)>>

export_layers(document, paths, bm) ==
    <<Call("setBatchmode", NoDoc, "True")>>
        \o [i \in 1..Len(paths) |-> Call("node.save", document, paths[i])]
        \o <<Call("setBatchmode", NoDoc, BoolStr(bm))>>

TempThumbnail == "/tmp/sgtk_thumb.png"

\* get_document_thumbnail, then set_thumbnail_from_path when the file is not empty
document_thumbnail(it, bm, thumbOk) ==
    IF it.session_document = NoDoc THEN PR(it, "raise AttributeError: rootNode", << >>)
    ELSE PR(it, TempThumbnail,
            export_layers(it.session_document, <<TempThumbnail>>, bm)
              \o (IF thumbOk THEN <<Call("set_thumbnail_from_path", NoDoc, TempThumbnail)>>
                  ELSE << >>))

\* _get_next_version_info of the base publish plugin: the path one version
\* up, None for a path without a version
NextVersionPath(p) == IF PathVersion(p) > 0 THEN WorkPath(PathVersion(p) + 1) ELSE None

\* validate without its while loop: the version right after the current one
NextFreeVersion_NoLoop(v, disk) == v

\* the while loop of the session plugin's validate: the first version from v
\* on whose work file is not on disk
RECURSIVE NextFreeVersion(_, _)
NextFreeVersion(v, disk) == IF v \in disk THEN NextFreeVersion(v + 1, disk) ELSE v

next_version_check(it, disk) ==
    LET next_version_path == NextVersionPath(it.session_path)
        version == NextFreeVersion(PathVersion(it.session_path) + 1, disk)
    IN  IF Truthy(next_version_path) /\ PathVersion(next_version_path) \in disk
        THEN PR(it, "raise Exception: next version exists",
                <<Call("logger.error", NoDoc, "Save to v" \o ToString(version)),
                  Call("action_button.callback", NoDoc, WorkPath(version))>>)
        ELSE PR(it, None, << >>)

\* validate of the three plugins, ending in the base plugin's validate, which
\* returns True
validate(kind, h, it, st, disk, bm, thumbOk) ==
    LET session == session_validate(h, it)
        templates == Then(session, LAMBDA i : templates_validate(kind, i, st))
        thumbnail == IF kind # "layers" THEN templates
                     ELSE Then(templates, LAMBDA i : document_thumbnail(i, bm, thumbOk))
        paths == CASE kind = "session" ->
                        Then(thumbnail, LAMBDA i : next_version_check(i, disk))
                   [] OTHER ->
                        Then(Then(thumbnail, LAMBDA i : get_export_path(kind, i, st)),
                             LAMBDA i : get_publish_path(kind, i, st))
    IN  IF Raised(paths) THEN paths ELSE PR(paths.it, "True", paths.calls)

\* the file each node of a krita.layers item is exported to
LayerFile(it, export_path, node_name) ==
    LET named == IF Truthy(it.layer_name_template)
                 THEN get_path_from_work_template("layers", it, it.layer_name_template,
                                                  node_name).res
                 ELSE None
    IN  export_path \o "/" \o (IF Truthy(named) THEN named ELSE node_name \o ".png")

\* copy_file / copy_folder and what follows it
copy_to_publish(kind, it, export_path, publish_path, copyOk) ==
    IF publish_path = export_path
    THEN PR([it EXCEPT !.path = publish_path], None,
            <<Call("set_thumbnail_from_path", NoDoc, publish_path)>>)
    ELSE IF ~copyOk
         THEN PR(it, "raise TankError: Failed to copy",
                 <<Call("ensure_folder_exists", NoDoc, publish_path),
                   Call(IF kind = "layer" THEN "copy_file" ELSE "copy_folder", NoDoc,
                        publish_path)>>)
         ELSE PR([it EXCEPT !.path = publish_path], None,
                 <<Call("ensure_folder_exists", NoDoc, publish_path),
                   Call(IF kind = "layer" THEN "copy_file" ELSE "copy_folder", NoDoc,
                        publish_path),
                   Call("set_thumbnail_from_path", NoDoc, publish_path)>>)

\* _copy_work_to_publish of the layer and the layers plugins
copy_work_to_publish(kind, it, st, bm, copyOk) ==
    LET unnamed == IF kind = "layers" /\ ~Truthy(it.layer_name_template)
                   THEN <<Call("logger.warning", NoDoc, "No Layer Name Template")>>
                   ELSE << >>
        export == Then(PR(it, None, unnamed), LAMBDA i : get_export_path(kind, i, st))
        files == IF kind = "layer" THEN <<export.res>>
                 ELSE [n \in 1..Len(NodeNames) |-> LayerFile(export.it, export.res, NodeNames[n])]
        exported ==
            IF Raised(export) THEN export
            ELSE IF it.session_document = NoDoc
                 THEN PR(IF kind = "layer" THEN [export.it EXCEPT !.path = export.res]
                         ELSE export.it,
                         "raise AttributeError: rootNode",
                         export.calls \o <<Call("ensure_folder_exists", NoDoc, export.res),
                                            Call("setBatchmode", NoDoc, "True"),
                                            Call("setBatchmode", NoDoc, BoolStr(bm))>>)
                 ELSE PR(IF kind = "layer" THEN [export.it EXCEPT !.path = export.res]
                         ELSE export.it,
                         export.res,
                         export.calls
                           \o <<Call("ensure_folder_exists", NoDoc, export.res)>>
                           \o export_layers(it.session_document, files, bm)
                           \o (IF kind = "layers"
                               THEN <<Call("set_thumbnail_from_path", NoDoc, files[Len(files)])>>
                               ELSE << >>))
        publish == Then(exported, LAMBDA i : get_publish_path(kind, i, st))
    IN  IF kind = "layer" /\ it.session_path = Missing
        THEN PR(it, "raise KeyError: session_path", << >>)
        ELSE Then(publish, LAMBDA i : copy_to_publish(kind, i, export.res, publish.res, copyOk))

\* ---- the artist between two calls of the publisher
\* the artist opens a document, saved or not, when none is open
ArtistOpens ==
    \E p \in PubPaths \cup {NoPath} :
      LET d == NewDoc(HostRec)
      IN
        /\ openDocs = {}
        /\ openDocs' = {d}
        /\ activeDoc' = d
        /\ fileName' = [fileName EXCEPT ![d] = p]
        /\ modified' = [modified EXCEPT ![d] = FALSE]
        /\ Hist("artist_open")
        /\ UNCHANGED <<layerTree, clipRange, batchmode, canCreateMenu, engineVars, launchVars,
                       pluginVars>>

\* the artist paints: the document is modified
ArtistEdits ==
    /\ activeDoc # NoDoc
    /\ ~modified[activeDoc]
    /\ modified' = [modified EXCEPT ![activeDoc] = TRUE]
    /\ Hist("artist_edit")
    /\ UNCHANGED <<openDocs, activeDoc, fileName, layerTree, clipRange, batchmode,
                   canCreateMenu, engineVars, launchVars, pluginVars>>

\* the artist saves the document under a path ("Save As...")
ArtistSavesAs ==
    \E p \in PubPaths :
        /\ activeDoc # NoDoc
        /\ fileName[activeDoc] # p \/ modified[activeDoc]
        /\ fileName' = [fileName EXCEPT ![activeDoc] = p]
        /\ modified' = [modified EXCEPT ![activeDoc] = FALSE]
        /\ Hist("artist_save_as")
        /\ UNCHANGED <<openDocs, activeDoc, layerTree, clipRange, batchmode, canCreateMenu,
                       engineVars, launchVars, pluginVars>>

\* the artist closes the document
ArtistCloses ==
    /\ activeDoc # NoDoc
    /\ openDocs' = {}
    /\ activeDoc' = NoDoc
    /\ fileName' = [fileName EXCEPT ![activeDoc] = NoPath]
    /\ modified' = [modified EXCEPT ![activeDoc] = FALSE]
    /\ layerTree' = [layerTree EXCEPT ![activeDoc] = << >>]
    /\ Hist("artist_close")
    /\ UNCHANGED <<clipRange, batchmode, canCreateMenu, engineVars, launchVars, pluginVars>>

\* the settings the publisher can pass to a method of the plugin of an item
SettingsOf(kind) ==
    {st \in [PublishTemplate : PublishTemplateValues, ExportTemplate : ExportTemplateValues,
             LayerNameTemplate : LayerNameTemplateValues] :
        /\ (kind = "session" => st.ExportTemplate = None)
        /\ (kind # "layers" => st.LayerNameTemplate = None)}

\* a getter does not read the setting of a template the item already caches:
\* for such a setting one value stands for all
SettingsRead(kind, it) ==
    {st \in SettingsOf(kind) :
        /\ (Truthy(it.publish_template) => st.PublishTemplate = None)
        /\ (Truthy(it.export_template) => st.ExportTemplate = None)
        /\ (Truthy(it.layer_name_template) => st.LayerNameTemplate = None)}

\* ---- the publisher calling the plugin of the item
\* the state after a plugin method has run with outcome r
ApplyPlugin(op, r) ==
    /\ item' = r.it
    /\ lastOp' = itemKind \o ":" \o op
    /\ calls' = r.calls
    /\ result' = r.res
    /\ UNCHANGED <<hostVars, engineVars, launchVars, itemKind, diskVersions, collVars,
                   loaderVars>>

PluginGetPublishTemplate ==
    \E name \in PublishTemplateValues :
        ApplyPlugin("get_publish_template",
                    get_publish_template(item, [DefaultSettings EXCEPT !.PublishTemplate = name]))

PluginGetExportTemplate ==
    \E name \in ExportTemplateValues :
        /\ itemKind # "session"
        /\ ApplyPlugin("get_export_template",
                       get_export_template(item, [DefaultSettings EXCEPT !.ExportTemplate = name]))

PluginGetLayerNameTemplate ==
    \E name \in LayerNameTemplateValues :
        /\ itemKind = "layers"
        /\ ApplyPlugin("get_layer_name_template",
                       get_layer_name_template(item, [DefaultSettings EXCEPT
                                                        !.LayerNameTemplate = name]))

PluginGetExportPath ==
    \E name \in ExportTemplateValues :
        /\ itemKind # "session"
        /\ ApplyPlugin("get_export_path",
                       get_export_path(itemKind, item,
                                       [DefaultSettings EXCEPT !.ExportTemplate = name]))

PluginGetPublishPath ==
    \E st \in SettingsRead("layer", item) :
        /\ itemKind # "session"
        /\ ApplyPlugin("get_publish_path", get_publish_path(itemKind, item, st))

PluginSessionValidate ==
    ApplyPlugin("session_validate", session_validate(HostRec, item))

PluginValidate ==
    \E st \in SettingsRead(itemKind, item),
       thumbOk \in (IF itemKind = "layers" THEN BOOLEAN ELSE {TRUE}) :
        ApplyPlugin("validate", validate(itemKind, HostRec, item, st, diskVersions,
                                         batchmode, thumbOk))

\* publish of the base plugin calls _copy_work_to_publish once the item is validated
PluginCopyWorkToPublish ==
    \E st \in SettingsRead("layer", item), copyOk \in BOOLEAN :
        /\ itemKind # "session"
        /\ item.session_path # Missing
        /\ ApplyPlugin("_copy_work_to_publish",
                       copy_work_to_publish(itemKind, item, st, batchmode, copyOk))

\* the artist presses the "Save to v<N>" button validate has logged: the
\* callback is _save_session on the path the while loop ended with
PluginSaveToNextVersion ==
    \E i \in 1..Len(calls), ok \in BOOLEAN :
        /\ lastOp = "session:validate"
        /\ calls[i].op = "action_button.callback"
        /\ PathVersion(calls[i].arg) <= MaxVersion
        /\ Apply("session:save_to_next_version", save_session(HostRec, calls[i].arg, ok))
        /\ diskVersions' = IF ok /\ activeDoc # NoDoc
                           THEN diskVersions \cup {PathVersion(calls[i].arg)}
                           ELSE diskVersions
        /\ UNCHANGED <<batchmode, canCreateMenu, engineVars, launchVars, itemKind, item,
                       collVars, loaderVars>>

PublishNext ==
    \/ ArtistOpens
    \/ ArtistEdits
    \/ ArtistSavesAs
    \/ ArtistCloses
    \/ PluginGetPublishTemplate
    \/ PluginGetExportTemplate
    \/ PluginGetLayerNameTemplate
    \/ PluginGetExportPath
    \/ PluginGetPublishPath
    \/ PluginSessionValidate
    \/ PluginValidate
    \/ PluginCopyWorkToPublish
    \/ PluginSaveToNextVersion

\* the publisher has collected one item of some kind, in a started engine
InitPublish ==
    /\ ctxSwitchSetting = FALSE
    /\ engineCtx = ProjectContext
    /\ InitHost
    /\ InitHist
    /\ InitEngineStarted
    /\ InitLaunched
    /\ itemKind \in {"session", "layer", "layers"}
    /\ item \in {NewItem(w) : w \in WorkTemplates(itemKind)}
    /\ items = << >>
    /\ action_instances = << >>
    /\ diskVersions \in (IF itemKind = "session" THEN SUBSET {2, 3} ELSE {{}})

SpecPublish == InitPublish /\ [][PublishNext]_vars

\* ---------------------------------------------------------------- collector
\* the values the collector's Work Template setting can hold (None: not configured)
WorkTemplateValues == {None, "krita_work", "krita_gone"}

\* node.name() of the node with a number
LayerName(n) == "Layer " \o ToString(n)

\* node.childNodes(): the children of a node of a tree, in document order
ChildNodes(tree, parentNode) ==
    SelectSeq([n \in 1..Len(tree) |-> n], LAMBDA n : tree[n] = parentNode)

\* _recurse_layers: the nodes in the order in which fn is applied to them
RECURSIVE recurse_layers(_, _), RecurseOver(_, _)
RecurseOver(tree, nodes) ==
    IF nodes = << >> THEN << >>
    ELSE <<Head(nodes)>> \o recurse_layers(tree, Head(nodes)) \o RecurseOver(tree, Tail(nodes))
recurse_layers(tree, parentNode) == RecurseOver(tree, ChildNodes(tree, parentNode))

\* parent_item.create_item(type, ...): an item of the publish tree
NewTreeItem(type, name, parent_item, node) ==
    [type |-> type, name |-> name, parent |-> parent_item, node |-> node,
     nodes |-> << >>, work_template |-> Missing]

\* the outcome of a collector method: the items after it, whether it raised,
\* the item it returned (0 for None)
CR(its, raised, at) == [items |-> its, raised |-> raised, at |-> at]

MissingWorkTemplate == "raise TankError: Missing Work Template in templates.yml"

\* collect_current_krita_session
collect_current_krita_session(h, its, wt) ==
    LET path == IF h.activeDoc = NoDoc THEN None ELSE h.fileName[h.activeDoc]
    IN  IF ~Truthy(path) THEN CR(its, FALSE, 0)
        ELSE CR(Append(its, [NewTreeItem("krita.session", Basename(Normalize(path)), 0, 0)
                               EXCEPT !.work_template = get_template_by_name(wt)]),
                FALSE, Len(its) + 1)

\* create_node_layer_item: the item is created, then the Work Template is looked up
create_node_layer_item(its, parent_item, node, display_name, is_header, wt) ==
    LET layer_item == NewTreeItem(IF is_header THEN "krita.layer.header" ELSE "krita.layer",
                                  display_name, parent_item, node)
        work_template == get_template_by_name(wt)
    IN  IF work_template = None
        THEN CR(Append(its, layer_item), TRUE, 0)
        ELSE CR(Append(its, [layer_item EXCEPT !.work_template = work_template]),
                FALSE, Len(its) + 1)

\* _recurse_layers with fn = create_node_layer_item under the header item
RECURSIVE CreateLayerItems(_, _, _, _)
CreateLayerItems(its, top_layer_item, nodes, wt) ==
    IF nodes = << >> THEN CR(its, FALSE, 0)
    ELSE LET made == create_node_layer_item(its, top_layer_item, Head(nodes),
                                            LayerName(Head(nodes)), FALSE, wt)
         IN  IF made.raised THEN made
             ELSE CreateLayerItems(made.items, top_layer_item, Tail(nodes), wt)

\* collect_krita_layers
collect_krita_layers(h, its, parent_item, wt) ==
    LET doc == h.activeDoc
        layer_names == recurse_layers(h.layerTree[doc], 0)
        top_layer_item == create_node_layer_item(its, parent_item, 0, "Document Layers",
                                                 TRUE, wt)
    IN  IF doc = NoDoc \/ ~Truthy(h.fileName[doc]) THEN CR(its, FALSE, 0)
        ELSE IF Len(layer_names) > 1
             THEN IF top_layer_item.raised THEN top_layer_item
                  ELSE CreateLayerItems(top_layer_item.items, top_layer_item.at,
                                        recurse_layers(h.layerTree[doc], 0), wt)
             ELSE CR(its, FALSE, 0)

\* collect_krita_layers_as_folder
collect_krita_layers_as_folder(h, its, parent_item, wt) ==
    LET doc == h.activeDoc
        layer_nodes == recurse_layers(h.layerTree[doc], 0)
        layer_item == [NewTreeItem("krita.layers", "Document Layers (Folder)", parent_item, 0)
                         EXCEPT !.nodes = layer_nodes]
        work_template == get_template_by_name(wt)
    IN  IF doc = NoDoc THEN CR(its, FALSE, 0)
        ELSE IF Len(layer_nodes) > 1
             THEN IF work_template = None
                  THEN CR(Append(its, layer_item), TRUE, 0)
                  ELSE CR(Append(its, [layer_item EXCEPT !.work_template = work_template]),
                          FALSE, Len(its) + 1)
             ELSE CR(its, FALSE, 0)

\* process_current_session, the publish tree empty before it
process_current_session(h, wt, asFolder) ==
    LET session_item == collect_current_krita_session(h, << >>, wt)
    IN  IF session_item.at = 0 THEN session_item
        ELSE IF asFolder
             THEN collect_krita_layers_as_folder(h, session_item.items, session_item.at, wt)
             ELSE collect_krita_layers(h, session_item.items, session_item.at, wt)

\* ---- the artist and the publisher's collection pass
MaxLayers == 3

\* the artist adds a layer to the document, at the root or inside a group
ArtistAddsLayer ==
    \E parentNode \in 0..MaxLayers :
        /\ activeDoc # NoDoc
        /\ Len(layerTree[activeDoc]) < MaxLayers
        /\ parentNode <= Len(layerTree[activeDoc])
        /\ layerTree' = [layerTree EXCEPT ![activeDoc] = Append(@, parentNode)]
        /\ modified' = [modified EXCEPT ![activeDoc] = TRUE]
        /\ Hist("artist_add_layer")
        /\ UNCHANGED <<openDocs, activeDoc, fileName, clipRange, batchmode, canCreateMenu,
                       engineVars, launchVars, pluginVars>>

\* the publisher collects: process_current_session(settings, root item)
ProcessCurrentSession ==
    \E wt \in WorkTemplateValues, asFolder \in BOOLEAN :
        LET r == process_current_session(HostRec, wt, asFolder)
        IN  /\ items' = r.items
            /\ lastOp' = "process_current_session:" \o (IF asFolder THEN "folder" ELSE "layers")
            /\ calls' = <<Call("settings.get", NoDoc, wt)>>
            /\ result' = IF r.raised THEN MissingWorkTemplate
                         ELSE IF r.items = << >> THEN "[]"
                         ELSE "[session_item, layer_items]"
            /\ UNCHANGED <<hostVars, engineVars, launchVars, pubVars, loaderVars>>

CollectNext ==
    \/ ArtistOpens
    \/ ArtistAddsLayer
    \/ ArtistSavesAs
    \/ ArtistCloses
    \/ ProcessCurrentSession

InitCollect ==
    /\ ctxSwitchSetting = FALSE
    /\ engineCtx = ProjectContext
    /\ InitHost
    /\ InitHist
    /\ InitEngineStarted
    /\ InitLaunched
    /\ InitPublishIdle

SpecCollect == InitCollect /\ [][CollectNext]_vars

\* ------------------------------------------------------------ loader actions
\* action names the app configuration can list for a publish type: the three
\* this hook implements and one it does not
ConfiguredActionNames == ActionNames \cup {"reference"}
ActionNameLists == UNION {[1..n -> ConfiguredActionNames] : n \in 0..MaxActions}

\* the action dictionaries the loader passes to execute_multiple_actions:
\* name and, standing for sg_publish_data, the path of the publish
ActionDicts ==
    {[name |-> "open_image", path |-> "/p/shot1/img.PNG"],
     [name |-> "open_as_layer", path |-> "/p/shot1/img.PNG"],
     [name |-> "import_animation_frames", path |-> "/p/shot1/img.PNG"],
     [name |-> "open_as_layer", path |-> "/p/shot1/notes.txt"]}
ActionLists == UNION {[1..n -> ActionDicts] : n \in 0..MaxActions}

\* one action instance as generate_actions builds it
ActionInstance(name, caption, description) ==
    [name |-> name, params |-> None, caption |-> caption, description |-> description]

\* `name in actions`
InActions(name, actions) == \E i \in 1..Len(actions) : actions[i] = name

\* generate_actions that stops at the first action it knows
generate_actions_FirstKnownOnly(actions) ==
    IF InActions("open_image", actions)
    THEN <<ActionInstance("open_image", "Open Image as new Document",
                          "This file will be opened as a new Document")>>
    ELSE IF InActions("open_as_layer", actions)
    THEN <<ActionInstance("open_as_layer", "Open Image as Layer",
                          "This file will be opened as a new layer in the current document")>>
    ELSE IF InActions("import_animation_frames", actions)
    THEN <<ActionInstance("import_animation_frames", "Import as animated frames",
                          "Import the Image Sequence as animated frames into the current document inserting frames from the current time onwards")>>
    ELSE << >>

\* KritaActions.generate_actions
generate_actions(actions) ==
    (IF InActions("open_image", actions)
     THEN <<ActionInstance("open_image", "Open Image as new Document",
                           "This file will be opened as a new Document")>>
     ELSE << >>)
    \o (IF InActions("open_as_layer", actions)
        THEN <<ActionInstance("open_as_layer", "Open Image as Layer",
                              "This file will be opened as a new layer in the current document")>>
        ELSE << >>)
    \o (IF InActions("import_animation_frames", actions)
        THEN <<ActionInstance("import_animation_frames", "Import as animated frames",
                              "Import the Image Sequence as animated frames into the current document inserting frames from the current time onwards")>>
        ELSE << >>)

\* whether execute_action raised
ActionRaised(r) == r.result = "raise Exception: Unsupported file extension"

\* the log_debug execute_multiple_actions makes for one action
SingleActionLog(single_action) ==
    Call("log_debug", NoDoc, single_action.name \o " " \o single_action.path)

\* execute_multiple_actions that logs an error and goes on with the next action
RECURSIVE execute_multiple_actions_GoesOn(_, _)
execute_multiple_actions_GoesOn(h, actions) ==
    IF actions = << >> THEN Outcome(h, << >>, None)
    ELSE LET single_action == Head(actions)
             done == execute_action(h, single_action.name, single_action.path)
             rest == execute_multiple_actions_GoesOn(done.h, Tail(actions))
         IN  Outcome(rest.h, <<SingleActionLog(single_action)>> \o done.calls \o rest.calls,
                     rest.result)

\* KritaActions.execute_multiple_actions: the for loop over the actions; an
\* exception of execute_action leaves the loop and the method
RECURSIVE execute_multiple_actions(_, _)
execute_multiple_actions(h, actions) ==
    IF actions = << >> THEN Outcome(h, << >>, None)
    ELSE LET single_action == Head(actions)
             done == execute_action(h, single_action.name, single_action.path)
         IN  IF ActionRaised(done)
             THEN Outcome(done.h, <<SingleActionLog(single_action)>> \o done.calls,
                          done.result)
             ELSE LET rest == execute_multiple_actions(done.h, Tail(actions))
                  IN  Outcome(rest.h,
                              <<SingleActionLog(single_action)>> \o done.calls \o rest.calls,
                              rest.result)

\* whether the host can create the documents and nodes the actions need, one
\* after the other
RECURSIVE ActionsFit(_, _)
ActionsFit(h, actions) ==
    IF actions = << >> THEN TRUE
    ELSE IF ~ActionFits(h, Head(actions).name) THEN FALSE
    ELSE ActionsFit(execute_action(h, Head(actions).name, Head(actions).path).h,
                    Tail(actions))

\* where the loader shows the publish
UiAreas == {"main", "details"}

\* the loader asks for the action instances of a publish; the history keeps
\* what the log_debug line is formatted from: the UI area and the names passed in
LoaderGenerateActions ==
    \E actions \in ActionNameLists, ui_area \in UiAreas :
        /\ action_instances' = generate_actions(actions)
        /\ lastOp' = "generate_actions"
        /\ calls' = <<Call("log_debug", NoDoc, <<ui_area, actions>>)>>
        /\ result' = None
        /\ UNCHANGED <<hostVars, engineVars, launchVars, pubVars, collVars>>

\* the loader runs the actions chosen for a selection; the history starts
\* with the list it passed
LoaderExecuteMultipleActions ==
    \E actions \in ActionLists :
        /\ ActionsFit(HostRec, actions)
        /\ LET r == execute_multiple_actions(HostRec, actions)
           IN  Apply("execute_multiple_actions",
                     [r EXCEPT !.calls = <<Call("execute_multiple_actions", NoDoc,
                                                actions)>> \o @])
        /\ UNCHANGED <<pluginVars, launchVars, batchmode, canCreateMenu, engineVars>>

\* the loader's menu of a publish
LoaderMenuNext == LoaderGenerateActions

\* the loader's action on a selection of publishes
LoaderNext ==
    \/ HooksUser
    \/ LoaderExecuteMultipleActions

\* a started engine in a running host with nothing open
InitLoader ==
    /\ ctxSwitchSetting = FALSE
    /\ engineCtx = ProjectContext
    /\ InitHost
    /\ InitHist
    /\ InitEngineStarted
    /\ InitLaunched
    /\ InitPublishIdle

SpecLoaderMenu == InitLoader /\ [][LoaderMenuNext]_vars
SpecLoader == InitLoader /\ [][LoaderNext]_vars

\* -------------------------------------------------------------- engine start
\* SHOW_COMP_DLG of engine.py, and the variable init_engine sets on Windows
SHOW_COMP_DLG == "SGTK_COMPATIBILITY_DIALOG_SHOWN"
SKIP_QTWEBENGINE == "SHOTGUN_SKIP_QTWEBENGINEWIDGETS_IMPORT"
StartEnvNames == EnvNames \cup {SHOW_COMP_DLG, SKIP_QTWEBENGINE}

\* sys.platform values of the host; tank.util knows the first three
HostPlatforms == Platforms \cup {"sunos5"}

\* Krita.instance().version() as the list version.split(".") of its
\* components, the first two written as their decimal digits
MaxMinorDigits == 2
MajorParts == {<<3>>, <<4>>, <<5>>, <<6>>, <<1, 0>>}
MinorDigits == {0, 1, 9}
MinorParts == UNION {[1..n -> MinorDigits] : n \in 1..MaxMinorDigits}
PatchParts == {<<2>>}
KritaVersions ==
    {<<ma>> : ma \in MajorParts}
    \cup {<<ma, mi>> : ma \in MajorParts, mi \in MinorParts}
    \cup {<<ma, mi, pa>> : ma \in MajorParts, mi \in MinorParts, pa \in PatchParts}

\* engine setting compatibility_dialog_min_version
CompatDialogMinVersions == {5, 7}

RECURSIVE Pow10(_)
Pow10(n) == IF n = 0 THEN 1 ELSE 10 * Pow10(n - 1)

\* floats are kept as integers, in units of 10 ^ -MaxMinorDigits
FloatUnit == Pow10(MaxMinorDigits)

\* int() of a string of decimal digits
RECURSIVE DigitsValue(_)
DigitsValue(ds) ==
    IF ds = << >> THEN 0 ELSE 10 * DigitsValue(SubSeq(ds, 1, Len(ds) - 1)) + ds[Len(ds)]

\* MIN_COMPATIBILITY_VERSION = 4.0
MIN_COMPATIBILITY_VERSION == 4 * FloatUnit

\* reads the digits after the point as tenths whatever their number
krita_ver_MinorAsTenths(version) ==
    IF Len(version) = 1
    THEN DigitsValue(version[1]) * FloatUnit
    ELSE DigitsValue(version[1]) * FloatUnit
         + DigitsValue(version[2]) * Pow10(MaxMinorDigits - 1)

\* float(".".join(krita_build_version.split(".")[:2]))
krita_ver(version) ==
    IF Len(version) = 1
    THEN DigitsValue(version[1]) * FloatUnit
    ELSE DigitsValue(version[1]) * FloatUnit
         + DigitsValue(version[2]) * Pow10(MaxMinorDigits - Len(version[2]))

IncompatibleMsg == "Shotgun integration is not compatible with Krita versions older than 4.0"
NotTestedMsg == "The Shotgun Pipeline Toolkit has not yet been fully tested with Krita"
PlatformError == "raise TankError: The current platform is not supported!"

\* show_error(msg): a dialog, or the host's log in batch mode
show_error(batch_mode, msg) ==
    IF ~batch_mode
    THEN <<Call("QMessageBox.critical", NoDoc, msg)>>
    ELSE <<Call("qCritical", NoDoc, msg)>>

\* show_info(msg): its batch_mode is the constant False
show_info(msg) == <<Call("QMessageBox.information", NoDoc, msg)>>

\* KritaEngine.init_engine on a host of the given platform and version, with
\* environment e: what it raises or returns, the calls it makes, the
\* environment it leaves
init_engine(batch_mode, plat, e, version, min_ver) ==
    LET ver == krita_ver(version)
        done(res, cs, e2) == [result |-> res, calls |-> cs, env |-> e2]
        show_dlg_1 == ~batch_mode /\ e[SHOW_COMP_DLG] = Unset
        e1 == IF show_dlg_1 THEN [e EXCEPT ![SHOW_COMP_DLG] = "1"] ELSE e
        show_dlg_2 == show_dlg_1 /\ ~(DigitsValue(version[1]) < min_ver)
        e2 == IF plat = "win32" THEN [e1 EXCEPT ![SKIP_QTWEBENGINE] = "1"] ELSE e1
    IN  IF plat \notin Platforms
        THEN done(PlatformError, << >>, e)
        ELSE IF ver < MIN_COMPATIBILITY_VERSION
        THEN done("raise TankError: " \o IncompatibleMsg, show_error(batch_mode, IncompatibleMsg), e)
        ELSE IF ver > MIN_COMPATIBILITY_VERSION + FloatUnit
        THEN done(None,
                  (IF show_dlg_2 THEN show_info(NotTestedMsg) ELSE << >>)
                  \o <<Call("logger.warning", NoDoc, NotTestedMsg),
                       Call("_init_pyside", NoDoc, None)>>,
                  e2)
        ELSE done(None, <<Call("_init_pyside", NoDoc, None)>>, e)

\* the framework builds the engine in a host: Engine.__init__ -> init_engine
InitEngine ==
    \E version \in KritaVersions, min_ver \in CompatDialogMinVersions :
        \E r \in {init_engine(batchmode, platform, env, version, min_ver)} :
            /\ lastOp' = "init_engine"
            /\ calls' = <<Call("Krita.version", NoDoc, version)>> \o r.calls
            /\ result' = r.result
            /\ env' = r.env
            /\ UNCHANGED <<hostVars, engineVars, pluginVars, platform, launcherCtx, hostProc,
                           engineName, pluginDir>>

StartNext == InitEngine

\* a host is running with the launch environment cleaned, no engine yet
InitStart ==
    /\ platform \in HostPlatforms
    /\ launcherCtx = ProjectContext
    /\ pluginDir = [f \in PluginFiles |-> IF f \in SrcFiles THEN SrcContent ELSE Absent]
    /\ env \in {[n \in StartEnvNames |->
                    IF n = "SGTK_MODULE_PATH" THEN "/sgtk/core"
                    ELSE IF n = SHOW_COMP_DLG THEN shown ELSE Unset] : shown \in {Unset, "1"}}
    /\ hostProc = "running"
    /\ engineName = ""
    /\ engineCtx = ProjectContext
    /\ active_doc = NoDoc
    /\ timerActive = FALSE
    /\ ctxSwitch = "unset"
    /\ ctxSwitchSetting = FALSE
    /\ currentEngine = FALSE
    /\ menu = "none"
    /\ menuPending = FALSE
    /\ openDocs = {}
    /\ activeDoc = NoDoc
    /\ fileName = [d \in Docs |-> NoPath]
    /\ modified = [d \in Docs |-> FALSE]
    /\ layerTree = [d \in Docs |-> << >>]
    /\ clipRange = [d \in Docs |-> <<0, 0>>]
    /\ batchmode \in BOOLEAN
    /\ canCreateMenu = FALSE
    /\ InitHist
    /\ InitPublishIdle

SpecStart == InitStart /\ [][StartNext]_vars

\* ------------------------------------------------- refresh_engine on its own
\* the module function refresh_engine(), called in a running host whether or
\* not an engine is current
RefreshEngine ==
    \E ccFails \in BOOLEAN :
        \E r \in {refresh_engine(ccFails)} :
            /\ engineCtx' = r.ctx
            /\ menu' = r.menu
            /\ menuPending' = r.pending
            /\ calls' = <<Call("refresh_engine", NoDoc, None)>> \o r.calls
            /\ lastOp' = "refresh_engine"
            /\ result' = None
            /\ UNCHANGED <<pluginVars, launchVars, hostVars, active_doc, timerActive, ctxSwitch,
                           ctxSwitchSetting, currentEngine>>

RefreshNext ==
    \/ HostNext
    \/ RefreshEngine
    \/ MenuRetry

\* a running host in which start_engine succeeded, or failed and left no
\* current engine
InitRefresh ==
    /\ ctxSwitchSetting = FALSE
    /\ currentEngine \in BOOLEAN
    /\ engineCtx \in (IF currentEngine THEN Contexts ELSE {None})
    /\ active_doc = NoDoc
    /\ timerActive = FALSE
    /\ ctxSwitch = "unset"
    /\ menu = "none"
    /\ menuPending = FALSE
    /\ platform = "win32"
    /\ launcherCtx = ProjectContext
    /\ env = CleanEnv
    /\ hostProc = "running"
    /\ engineName = IF currentEngine THEN ENGINE_NAME ELSE ""
    /\ pluginDir = [f \in PluginFiles |-> IF f \in SrcFiles THEN SrcContent ELSE Absent]
    /\ InitHost
    /\ InitHist
    /\ InitPublishIdle

SpecRefresh == InitRefresh /\ [][RefreshNext]_vars

\* ----------------------------------------------------------------- claims
\* C1: while the polling timer runs, a tick calls refresh_engine exactly when
\* the host's active document differs from the document recorded at the
\* previous tick (initially none), and after the tick the recorded document
\* is the host's current active document.
C1_TickRefreshesIffChanged ==
    [][ (timerActive /\ lastOp' = "tick")
          => /\ (active_doc # activeDoc
                   <=> (calls' # << >> /\ calls'[1].op = "refresh_engine"))
             /\ (active_doc = activeDoc => calls' = << >>)
             /\ active_doc' = activeDoc' ]_vars

C1_Witness ==
    /\ lastOp = "tick"
    /\ Len(calls) > 0 /\ calls[1].op = "refresh_engine"
    /\ activeDoc # NoDoc /\ active_doc = activeDoc

\* the results with which a handler raises instead of returning
RaiseResults == {"raise AttributeError", "raise Exception: Unsupported file extension",
                 "raise NotImplementedError", "raise shutil.Error"}
HasCall(cs, op) == \E i \in 1..Len(cs) : cs[i].op = op

\* C2: every document open, save and save-as issued by the scene operations,
\* the loader actions, the startup file-open and _save_session is followed,
\* within the same operation, by waitForDone on that same document, and the
\* file name is not set, the pixels are not read and the document is not
\* closed before that wait.
C2_WaitForDoneFollows ==
    \A i \in 1..Len(calls) :
        calls[i].op \in {"openDocument", "save", "saveAs"} =>
            \E j \in (i + 1)..Len(calls) :
                /\ calls[j].op = "waitForDone"
                /\ calls[j].doc = calls[i].doc
                /\ \A k \in (i + 1)..(j - 1) :
                      ~(calls[k].doc = calls[i].doc
                        /\ calls[k].op \in {"setFileName", "pixelData", "close"})

C2_Witness ==
    /\ lastOp = "execute_action:open_image"
    /\ HasCall(calls, "openDocument")
    /\ activeDoc # NoDoc /\ fileName[activeDoc] = "/p/shot1/img.PNG"

\* C5: with no active document no hook raises and no host state changes:
\* current_path returns None, save and save_as make no host call,
\* get_frame_range returns (0, 0), set_frame_range changes nothing, and
\* open_as_layer and import_animation_frames return False without a call.
C5Ops == {"workfiles:current_path", "workfiles:save", "workfiles:save_as",
          "snapshot:current_path", "snapshot:save", "get_frame_range", "set_frame_range",
          "_open_as_layer", "_import_animation_frames"}
C5_NoActiveDocumentNoEffect ==
    [][ (activeDoc = NoDoc /\ lastOp' \in C5Ops)
          => /\ result' \notin RaiseResults
             /\ calls' = << >>
             /\ docVars' = docVars
             /\ (lastOp' \in {"workfiles:current_path", "snapshot:current_path"}
                   => result' = None)
             /\ (lastOp' = "get_frame_range" => result' = ToString(<<0, 0>>))
             /\ (lastOp' \in {"_open_as_layer", "_import_animation_frames"}
                   => result' = "False") ]_vars

C5_Witness ==
    /\ activeDoc = NoDoc
    /\ lastOp = "_import_animation_frames"
    /\ result = "False"

\* C8: the engine start_toolkit_classic starts is the one named by SGTK_ENGINE
\* with the context deserialized from SGTK_CONTEXT, which are the engine name
\* and the serialized launcher context prepare_launch put in the launch
\* environment; if either variable is missing or empty, or the context
\* cannot be deserialized, no engine is started and an error is displayed.
C8_EngineFromLaunchEnvironment ==
    [][ /\ (lastOp' = "prepare_launch" /\ result' = "LaunchInformation")
            => /\ env'["SGTK_ENGINE"] = ENGINE_NAME
               /\ env'["SGTK_CONTEXT"] = Serialize(launcherCtx)
        /\ (hostProc = "starting" /\ lastOp' = "start_toolkit"
              /\ ~Falsy(env["SGTK_MODULE_PATH"]))
            => /\ currentEngine'
                  => /\ engineName' = env["SGTK_ENGINE"]
                     /\ Deserializable(env["SGTK_CONTEXT"])
                     /\ Serialize(engineCtx') = env["SGTK_CONTEXT"]
               /\ (currentEngine' /\ env["SGTK_CONTEXT"] = Serialize(launcherCtx))
                  => engineCtx' = launcherCtx
               /\ (Falsy(env["SGTK_ENGINE"]) \/ Falsy(env["SGTK_CONTEXT"])
                     \/ ~Deserializable(env["SGTK_CONTEXT"]))
                  => /\ ~currentEngine'
                     /\ engineName' = ""
                     /\ HasCall(calls', "display_error")
                     /\ ~HasCall(calls', "start_engine") ]_vars

C8_Witness ==
    /\ lastOp = "start_toolkit"
    /\ currentEngine
    /\ engineName = ENGINE_NAME
    /\ engineCtx = launcherCtx
    /\ engineCtx # ProjectContext

\* the calls of a sequence that have one of the given names, by position
CallsAt(cs, ops) == {i \in 1..Len(cs) : cs[i].op \in ops}
CopyOps == {"layer:_copy_work_to_publish", "layers:_copy_work_to_publish"}
UsesOfExport == {"copy_file", "copy_folder", "set_thumbnail_from_path"}

\* C3 as amended: in _copy_work_to_publish of the layer and layers plugins
\* every layer export (node.save) is made in batch mode and has returned,
\* with batch mode restored, before the exported file or folder is copied to
\* the publish location or used as the item thumbnail; the plugin makes no
\* wait-for-completion call in between.
C3_ExportReturnsBeforeCopy ==
    lastOp \in CopyOps =>
        /\ ~HasCall(calls, "waitForDone")
        /\ \A j \in CallsAt(calls, UsesOfExport) :
              /\ CallsAt(calls, {"node.save"}) # {}
              /\ \A i \in CallsAt(calls, {"node.save"}) :
                    /\ i < j
                    /\ \E b \in CallsAt(calls, {"setBatchmode"}) :
                          b < i /\ calls[b].arg = "True"
                    /\ \E b \in CallsAt(calls, {"setBatchmode"}) :
                          i < b /\ b < j /\ calls[b].arg = BoolStr(batchmode)

\* C3 as the claim states it: between a layer export and the copy or the
\* thumbnail that follows it, the plugin waits for the host to complete.
C3_WaitsAfterExport ==
    lastOp \in CopyOps =>
        \A i \in CallsAt(calls, {"node.save"}), j \in CallsAt(calls, UsesOfExport) :
            i < j => \E k \in CallsAt(calls, {"waitForDone"}) : i < k /\ k < j

C3_Witness ==
    /\ lastOp = "layers:_copy_work_to_publish"
    /\ Cardinality(CallsAt(calls, {"node.save"})) = Len(NodeNames)
    /\ HasCall(calls, "copy_folder")
    /\ item.path = item.publish_path

\* C4: in each of the three plugins, a template getter that finds its
\* setting naming a template the engine does not know raises TankError
\* "Missing <Publish|Export|Layer Name> Template in templates.yml", and a
\* getter that raises leaves item.properties as it was: nothing is cached.
GetterLabel(op) ==
    CASE op \in {"session:get_publish_template", "layer:get_publish_template",
                 "layers:get_publish_template"} -> "Publish"
      [] op \in {"layer:get_export_template", "layers:get_export_template"} -> "Export"
      [] op = "layers:get_layer_name_template" -> "Layer Name"
      [] OTHER -> "none"

PathGetters == {"layer:get_export_path", "layers:get_export_path",
                "layer:get_publish_path", "layers:get_publish_path"}
IsExportGetter(op) == op \in {"layer:get_export_path", "layers:get_export_path"}

C6_PathComputedOnce ==
    [][ itemKind # "session" /\ lastOp' \notin {"artist_open", "artist_edit",
                                                 "artist_save_as", "artist_close"}
          => /\ Truthy(item.export_path) => item'.export_path = item.export_path
             /\ Truthy(item.publish_path) => item'.publish_path = item.publish_path
             /\ lastOp' \in PathGetters
                  => LET before == IF IsExportGetter(lastOp') THEN item.export_path
                                   ELSE item.publish_path
                         after == IF IsExportGetter(lastOp') THEN item'.export_path
                                  ELSE item'.publish_path
                     IN  /\ Truthy(before)
                            => result' = before /\ item' = item /\ calls' = << >>
                         /\ result' \notin PluginRaises
                            => Truthy(result') /\ after = result' ]_vars

C6_Witness ==
    /\ lastOp = "layer:get_export_path"
    /\ calls = << >>
    /\ item.session_path = WorkPath(2)
    /\ result = ApplyFields("krita_export", WorkPath(1), NodeName)
    /\ item.export_path = result

\* C9: in the three plugins, session_validate and validate raise when there
\* is no active document or the active document has no file name; an error
\* is logged, with the "Save As..." button when the document is unsaved, and
\* session_path and path are left as they were on the item.  A saved but
\* modified document gets a warning and session_validate goes on to set
\* session_path and path.
SessionOps == {k \o ":" \o m : k \in {"session", "layer", "layers"},
                               m \in {"session_validate", "validate"}}
SessionRaises == {"raise Exception: no active document", "raise Exception: session not saved"}

C9_UnsavedSessionFailsValidation ==
    [][ lastOp' \in SessionOps
          => IF activeDoc = NoDoc \/ fileName[activeDoc] = NoPath
             THEN /\ result' = (IF activeDoc = NoDoc
                                THEN "raise Exception: no active document"
                                ELSE "raise Exception: session not saved")
                  /\ calls' = <<Call("logger.error", activeDoc,
                                     IF activeDoc = NoDoc THEN None ELSE SaveAsButton)>>
                  /\ item'.session_path = item.session_path
                  /\ item'.path = item.path
                  /\ item' = item
             ELSE /\ result' \notin SessionRaises
                  /\ item'.session_path = Normalize(fileName[activeDoc])
                  /\ modified[activeDoc]
                        => calls'[1] = Call("logger.warn", activeDoc, SaveAsButton) ]_vars

C9_Witness ==
    /\ lastOp = "layer:validate"
    /\ result = "raise Exception: session not saved"
    /\ activeDoc # NoDoc
    /\ item.session_path = Missing /\ item.path = Missing

\* C10 as the claim states it: when get_export_path of the layer or layers
\* plugin does not resolve the export path from a template, it returns, and
\* stores on the item, the default location
\* <directory of the work file>/layers/... .
C10_DefaultExportLocation ==
    [][ (/\ IsExportGetter(lastOp')
         /\ Truthy(item.session_path)
         /\ ~Truthy(item.export_path)
         /\ ~HasCall(calls', "apply_fields")
         /\ result' \notin {MissingTemplateError("Export")})
          => /\ result' = DefaultExportPath(itemKind, item.session_path)
             /\ item'.export_path = result' ]_vars

\* the nodes of the subtree of a node (the node and its descendants)
RECURSIVE IsInSubtree(_, _, _)
IsInSubtree(tree, top, n) ==
    n = top \/ (n # 0 /\ IsInSubtree(tree, top, tree[n]))

\* s lists every node below the root exactly once, a node before its
\* descendants, and the whole subtree of a sibling before the next sibling
IsPreOrder(tree, s) ==
    LET Pos(n) == CHOOSE i \in 1..Len(s) : s[i] = n
        Nodes == 1..Len(tree)
    IN  /\ Len(s) = Len(tree)
        /\ {s[i] : i \in 1..Len(s)} = Nodes
        /\ \A n \in Nodes : tree[n] # 0 => Pos(tree[n]) < Pos(n)
        /\ \A a, b \in Nodes :
              (tree[a] = tree[b] /\ a < b)
                => \A x, y \in Nodes :
                      (IsInSubtree(tree, a, x) /\ IsInSubtree(tree, b, y)) => Pos(x) < Pos(y)

ItemsOfType(its, type) == {i \in 1..Len(its) : its[i].type = type}

\* what collect_krita_layers is to leave under the session item for a tree
LayerItemsCollected(tree, its) ==
    LET layer_items == SelectSeq(its, LAMBDA x : x.type = "krita.layer")
        headers == ItemsOfType(its, "krita.layer.header")
    IN  IF Len(tree) > 1
        THEN /\ Cardinality(headers) = 1
             /\ \A hd \in headers :
                   /\ its[hd].name = "Document Layers"
                   /\ \A i \in 1..Len(layer_items) : layer_items[i].parent = hd
             /\ IsPreOrder(tree, [i \in 1..Len(layer_items) |-> layer_items[i].node])
        ELSE layer_items = << >> /\ headers = {}

CollectedLayersOfSavedDocument ==
    /\ lastOp = "process_current_session:layers"
    /\ activeDoc # NoDoc
    /\ Truthy(fileName[activeDoc])

\* C7 as the claim states it: with a saved active document, collect_krita_layers
\* leaves one header item "Document Layers" and under it one krita.layer
\* item per node below the root, each node once, in depth-first pre-order,
\* when the tree has more than one node, and no layer item and no header
\* otherwise.
C7_LayerItemsInPreOrder ==
    CollectedLayersOfSavedDocument => LayerItemsCollected(layerTree[activeDoc], items)

\* C7, for a Work Template setting that names a template the engine knows:
\* the items are as the claim states.
C7_LayerItemsWhenWorkTemplateKnown ==
    (CollectedLayersOfSavedDocument /\ result # MissingWorkTemplate)
        => LayerItemsCollected(layerTree[activeDoc], items)

\* the Work Template setting is not configured and the document has a group
\* with a layer and one more layer: the header is created, then TankError
C7_Witness ==
    /\ CollectedLayersOfSavedDocument
    /\ calls = <<Call("settings.get", NoDoc, None)>>
    /\ layerTree[activeDoc] = <<0, 0, 1>>
    /\ result = MissingWorkTemplate
    /\ ItemsOfType(items, "krita.layer.header") # {}
    /\ ItemsOfType(items, "krita.layer") = {}

\* the same document collected with a known Work Template: the layer inside
\* the group comes before the second layer of the root
C7_WitnessWorkTemplateKnown ==
    /\ CollectedLayersOfSavedDocument
    /\ layerTree[activeDoc] = <<0, 0, 1>>
    /\ Cardinality(ItemsOfType(items, "krita.layer")) = 3
    /\ items[3].node = 1 /\ items[4].node = 3 /\ items[5].node = 2

\* ---- C11
\* the version of the work file the active document is saved under, 0 when
\* there is no saved document or its name carries no version
CurrentVersion ==
    IF activeDoc = NoDoc THEN 0 ELSE PathVersion(Normalize(fileName[activeDoc]))

\* n is the smallest version above v whose work file is not on disk
IsSmallestFreeAbove(n, v, disk) ==
    /\ n > v
    /\ n \notin disk
    /\ \A k \in (v + 1)..(n - 1) : k \in disk

\* the validation reported the existing version with a "Save to v<n>" button
\* whose callback saves the session to the work file of version n
ReportsSaveTo(res, cs, n) ==
    /\ res = "raise Exception: next version exists"
    /\ \E i \in 1..Len(cs) - 1 :
          /\ cs[i] = Call("logger.error", NoDoc, "Save to v" \o ToString(n))
          /\ cs[i + 1] = Call("action_button.callback", NoDoc, WorkPath(n))

\* pressing the button saves the active document, once, to the work file of
\* the smallest free version above the current one
ButtonSavesToSmallestFree ==
    lastOp' = "session:save_to_next_version"
       => \E n \in 2..(MaxVersion + 1) :
            /\ IsSmallestFreeAbove(n, CurrentVersion, diskVersions)
            /\ Cardinality(CallsAt(calls', {"saveAs"})) = 1
            /\ \A i \in CallsAt(calls', {"saveAs"}) : calls'[i].arg = WorkPath(n)
            /\ HasCall(calls', "setFileName")
                  => /\ fileName'[activeDoc] = WorkPath(n)
                     /\ n \in diskVersions'

IsFirstRejected(k, actions) ==
    /\ k <= Len(actions) => ~is_a_supported_extension(actions[k].path)
    /\ \A i \in 1..(k - 1) : is_a_supported_extension(actions[i].path)

\* the host and the calls after the first n actions were run one by one with
\* execute_action, each announced by its log line
RECURSIVE RunOneByOne(_, _, _)
RunOneByOne(h, actions, n) ==
    IF n = 0 THEN Outcome(h, << >>, None)
    ELSE LET before == RunOneByOne(h, actions, n - 1)
             done == execute_action(before.h, actions[n].name, actions[n].path)
         IN  Outcome(done.h, before.calls \o <<SingleActionLog(actions[n])>> \o done.calls,
                     done.result)

\* C13: execute_multiple_actions runs the actions in list order; when one is
\* rejected for its file extension the exception leaves the method, the
\* rejected action has made no host call, no later action is started, and the
\* host is as the earlier actions left it.
C13_StopsAtFirstError ==
    [][ lastOp' = "execute_multiple_actions"
          => \E actions \in {calls'[1].arg} :
               /\ calls'[1].op = "execute_multiple_actions"
               /\ \E k \in 1..(Len(actions) + 1) :
                     /\ IsFirstRejected(k, actions)
                     /\ \E earlier \in {RunOneByOne(HostRec, actions, k - 1)} :
                           /\ HostRec' = earlier.h
                           /\ IF k <= Len(actions)
                              THEN /\ result' = "raise Exception: Unsupported file extension"
                                   /\ Tail(calls')
                                        = earlier.calls \o <<SingleActionLog(actions[k])>>
                              ELSE /\ result' = None
                                   /\ Tail(calls') = earlier.calls ]_vars

\* a list of three actions was run where the first opened a document, the
\* second was rejected and the third, which would have added a layer, was not run
C13_Witness ==
    /\ lastOp = "execute_multiple_actions"
    /\ result = "raise Exception: Unsupported file extension"
    /\ calls[1].arg = <<[name |-> "open_image", path |-> "/p/shot1/img.PNG"],
                        [name |-> "open_as_layer", path |-> "/p/shot1/notes.txt"],
                        [name |-> "open_as_layer", path |-> "/p/shot1/img.PNG"]>>
    /\ HasCall(calls, "openDocument")
    /\ ~HasCall(calls, "createNode")
    /\ openDocs # {}

\* ---- C14
\* the names generate_actions was called with, as its log line has them
PassedNames(cs) == cs[1].arg[2]

InstanceKeys == {"name", "params", "caption", "description"}
InstancesNamed(instances, name) == {j \in 1..Len(instances) : instances[j].name = name}

C15_PrepareLaunchOnSupportedPlatforms ==
    [][ (lastOp' = "prepare_launch" /\ platform \in Platforms
           /\ result' # "raise shutil.Error")
          => /\ result' = "LaunchInformation"
             /\ env'["SGTK_ENGINE"] = ENGINE_NAME
             /\ env'["SGTK_CONTEXT"] = Serialize(launcherCtx)
             /\ \A f \in SrcFiles : pluginDir'[f] = SrcContent ]_vars

\* prepare_launch has failed on Linux or Mac before anything was copied
C15_Witness ==
    /\ lastOp = "prepare_launch"
    /\ platform \in {"linux", "darwin"}
    /\ result = "raise NotImplementedError"
    /\ hostProc = "off"
    /\ \E f \in SrcFiles : pluginDir[f] # SrcContent

\* ---- C16
\* C16 as stated: no operation of the engine is re-attempted automatically;
\* a request that cannot complete is not rescheduled.
C16_NothingRescheduled ==
    [][ /\ ~HasCall(calls', "singleShot")
        /\ ~menuPending'
        /\ lastOp' # "menu_retry" ]_vars

\* the step ran create_shotgun_menu: after a change_context of
\* refresh_engine, or as the retry a single-shot timer fires
RanCreateMenu == HasCall(calls', "change_context") \/ lastOp' = "menu_retry"

\* C16 as amended: a refresh requests the context change at most once and
\* does not re-attempt it; menu creation is the one operation that is
\* re-attempted: create_shotgun_menu, when the host has a UI and its menu bar is
\* not ready, creates nothing and schedules itself again with a single-shot
\* timer, the retry does the same until the menu can be created, and
\* nothing else is ever rescheduled.
C16_OnlyMenuCreationRescheduled ==
    [][ /\ RanCreateMenu
           => IF has_ui /\ ~canCreateMenu
              THEN /\ Cardinality(CallsAt(calls', {"singleShot"})) = 1
                   /\ ~HasCall(calls', "create_menu")
                   /\ menuPending'
                   /\ menu' = menu
              ELSE /\ ~HasCall(calls', "singleShot")
                   /\ has_ui => Cardinality(CallsAt(calls', {"create_menu"})) = 1
                   /\ menuPending' = (lastOp' # "menu_retry" /\ menuPending)
        /\ HasCall(calls', "singleShot") => RanCreateMenu
        /\ lastOp' = "menu_retry" => menuPending
        /\ (menuPending' /\ ~menuPending) => HasCall(calls', "singleShot")
        /\ Cardinality(CallsAt(calls', {"change_context"})) <= 1
        /\ Cardinality(CallsAt(calls', {"refresh_engine"})) <= 1 ]_vars

\* a retry found the menu bar still not ready and rescheduled itself again
C16_Witness ==
    /\ lastOp = "menu_retry"
    /\ HasCall(calls, "singleShot")
    /\ menuPending
    /\ ~canCreateMenu
    /\ menu = "none"

\* ---- C17
\* the files a call sequence copies or unlinks
FilesTouched(cs) == {cs[i].arg : i \in CallsAt(cs, {"copy2", "unlink"})}
FilesCopied(cs) == {cs[i].arg : i \in CallsAt(cs, {"copy2"})}

\* C17: when ensure_scripts_up_to_date returns without error every source
\* file is in the destination with the source's content; exactly the files
\* that were missing or different were copied, each once; files of the
\* destination that the source does not have are as before; and running
\* the copy again on the result copies nothing and changes nothing.
C17_ScriptsUpToDate ==
    [][ (lastOp' = "prepare_launch" /\ result' = "LaunchInformation")
          => /\ \A f \in SrcFiles : pluginDir'[f] = SrcContent
             /\ FilesCopied(calls') = {f \in SrcFiles : pluginDir[f] # SrcContent}
             /\ FilesTouched(calls') = FilesCopied(calls')
             /\ Cardinality(CallsAt(calls', {"copy2"})) = Cardinality(FilesCopied(calls'))
             /\ \A f \in PluginFiles \ SrcFiles : pluginDir'[f] = pluginDir[f]
             /\ \E again \in {copytree_multi(pluginDir', {})} :
                   /\ again.calls = << >>
                   /\ again.errors = {}
                   /\ again.dir = pluginDir' ]_vars

\* a launch found one extension file out of date and one up to date: the
\* first was replaced, the second and a foreign plugin were left alone
C17_Witness ==
    /\ lastOp = "prepare_launch"
    /\ result = "LaunchInformation"
    /\ FilesCopied(calls) = {"krita_shotgun_extension/shotgun_bridge.py"}
    /\ HasCall(calls, "unlink")
    /\ pluginDir["other_plugin.py"] = "bridge-v1"
    /\ \A f \in SrcFiles : pluginDir[f] = SrcContent

\* ---- C18
CollectOps == {"process_current_session:folder", "process_current_session:layers"}

\* what process_current_session is to leave in the publish tree and return
SessionCollected ==
    LET sessions == ItemsOfType(items, "krita.session")
        folders == ItemsOfType(items, "krita.layers")
        layers == ItemsOfType(items, "krita.layer")
    IN  IF activeDoc = NoDoc \/ ~Truthy(fileName[activeDoc])
        THEN items = << >> /\ result = "[]"
        ELSE /\ result = "[session_item, layer_items]"
             /\ Cardinality(sessions) = 1
             /\ \A s \in sessions : items[s].parent = 0
             /\ Len(layerTree[activeDoc]) > 1
                   => IF lastOp = "process_current_session:folder"
                      THEN /\ layers = {}
                           /\ Cardinality(folders) = 1
                           /\ \A f \in folders :
                                 /\ items[f].parent \in sessions
                                 /\ IsPreOrder(layerTree[activeDoc], items[f].nodes)
                      ELSE /\ folders = {}
                           /\ Cardinality(layers) = Len(layerTree[activeDoc])
                           /\ {items[l].node : l \in layers} = 1..Len(layerTree[activeDoc])

\* C18: process_current_session with a saved active document that has
\* several layers returns one krita.session item and under it either a
\* single krita.layers item holding all layer nodes and no krita.layer item
\* (Publish Layers as Folder true) or one krita.layer item per layer and no
\* krita.layers item (false); with no saved active document it creates no
\* item and returns an empty list.
C18_SessionAndLayerItems ==
    lastOp \in CollectOps => SessionCollected

\* C18, for a Work Template setting that names a template the engine knows:
\* the items are as the claim states.
C18_SessionAndLayerItemsWhenWorkTemplateKnown ==
    (lastOp \in CollectOps /\ result # MissingWorkTemplate) => SessionCollected

\* the Work Template setting is not configured and the layers of a saved
\* document are collected as a folder: the session item and the krita.layers
\* item are created, then TankError ends the collection
C18_Witness ==
    /\ lastOp = "process_current_session:folder"
    /\ calls = <<Call("settings.get", NoDoc, None)>>
    /\ activeDoc # NoDoc
    /\ Len(layerTree[activeDoc]) = 3
    /\ result = MissingWorkTemplate
    /\ ItemsOfType(items, "krita.session") # {}
    /\ ItemsOfType(items, "krita.layers") # {}

\* the same collection with a known Work Template: one krita.layers item
\* holding the three nodes
C18_WitnessWorkTemplateKnown ==
    /\ lastOp = "process_current_session:folder"
    /\ result = "[session_item, layer_items]"
    /\ Cardinality(ItemsOfType(items, "krita.layers")) = 1
    /\ \A f \in ItemsOfType(items, "krita.layers") : Len(items[f].nodes) = 3

\* ---- C19
VersionGiven(cs) == cs[1].arg
MajorOf(version) == DigitsValue(version[1])
\* the digits after the point are absent or all zero
MinorIsZero(version) ==
    Len(version) = 1 \/ \A i \in 1..Len(version[2]) : version[2][i] = 0
IsAbove5_0(version) ==
    MajorOf(version) > 5 \/ (MajorOf(version) = 5 /\ ~MinorIsZero(version))
Reported(cs, msg) ==
    \E i \in 1..Len(cs) : cs[i].op \in {"QMessageBox.critical", "qCritical"} /\ cs[i].arg = msg
Warned(cs) ==
    \E i \in 1..Len(cs) : cs[i].op = "logger.warning" /\ cs[i].arg = NotTestedMsg

\* C19: on a supported platform init_engine reports the incompatibility and
\* raises TankError for every host version whose major.minor is below 4.0,
\* returns normally for every version at or above 4.0, and logs the
\* 'not yet fully tested' warning exactly for the versions above 5.0.
C19_VersionCheck ==
    (lastOp = "init_engine" /\ platform \in Platforms)
    => \E version \in {VersionGiven(calls)} :
          /\ MajorOf(version) < 4
                => /\ result = "raise TankError: " \o IncompatibleMsg
                   /\ Reported(calls, IncompatibleMsg)
                   /\ ~Warned(calls)
          /\ MajorOf(version) >= 4 => result = None
          /\ Warned(calls) <=> IsAbove5_0(version)

\* version 3.10, whose float is 3.1, is refused with the error dialog
C19_Witness ==
    /\ lastOp = "init_engine"
    /\ platform = "linux"
    /\ VersionGiven(calls) = <<<<3>>, <<1, 0>>>>
    /\ result = "raise TankError: " \o IncompatibleMsg
    /\ calls[2] = Call("QMessageBox.critical", NoDoc, IncompatibleMsg)

\* version 5.01.2 is accepted with the warning, 5.0.2 without it
C19_WitnessWarned ==
    /\ lastOp = "init_engine"
    /\ VersionGiven(calls) = <<<<5>>, <<0, 1>>, <<2>>>>
    /\ result = None
    /\ Warned(calls)

\* ---- C20
\* the context refresh_engine is to reach for a document saved under a path
\* of a pipeline configuration
FileContext(d) ==
    IF ContextFromPath(Abspath(fileName[d])) = None
    THEN ProjectContext
    ELSE ContextFromPath(Abspath(fileName[d]))

HasFileContext(d) ==
    /\ d # NoDoc
    /\ fileName[d] # NoPath
    /\ ~SgtkFromPathFails(Abspath(fileName[d]))

\* the user has just given the focus to a view whose file name is not the
\* one of the document the engine looked at last
ViewChangedFileName ==
    /\ lastOp \in {"user_switch", "user_open"}
    /\ activeDoc # NoDoc
    /\ active_doc = NoDoc \/ fileName[active_doc] # fileName[activeDoc]

\* the user has just saved the active document under another path
SavedUnderOtherPath == lastOp = "user_save_as"

ChangeContextRaised(cs) ==
    \E i \in 1..Len(cs) : cs[i] = Call("display_warning", NoDoc, "no change")

\* the timer ticks with the automatic context switch toggled on
SwitchTick ==
    /\ lastOp' = "tick"
    /\ ctxSwitch = "on"
    /\ currentEngine
    /\ HasFileContext(activeDoc)
    /\ ~ChangeContextRaised(calls')

\* C20: with the automatic context switch toggled on, once the file name of
\* the active view has become different, by a switch to another view or by
\* the active document being saved under another path, the next tick leaves
\* the engine in the context of that file.
C20_ContextFollowsFileName ==
    [][(SwitchTick /\ (ViewChangedFileName \/ SavedUnderOtherPath))
          => engineCtx' = FileContext(activeDoc)]_vars

\* C20, for a change of view only: the tick after it leaves the engine in
\* the context of the file of the view.
C20_ContextFollowsViewChange ==
    [][(SwitchTick /\ ViewChangedFileName) => engineCtx' = FileContext(activeDoc)]_vars

\* a tick with the switch on made no call although the active document is
\* saved under a path of another context: the engine had already recorded
\* the document
C20_Witness ==
    /\ lastOp = "tick"
    /\ calls = << >>
    /\ ctxSwitch = "on"
    /\ currentEngine
    /\ active_doc = activeDoc
    /\ HasFileContext(activeDoc)
    /\ fileName[activeDoc] = "/p/shot2/b.kra"
    /\ engineCtx = "ctxShot1"

\* a tick after the focus went to a view of another file changed the context
C20_WitnessViewChange ==
    /\ lastOp = "tick"
    /\ ctxSwitch = "on"
    /\ openDocs = Docs
    /\ calls # << >>
    /\ calls[Len(calls)].op = "create_menu"
    /\ \E i \in 1..Len(calls) : calls[i] = Call("change_context", NoDoc, "ctxShot2")
    /\ engineCtx = "ctxShot2"

\* ---- C21
ChangeContextCalls(cs) == CallsAt(cs, {"change_context"})

\* refresh_engine has nothing to go on: no engine, no active document, a
\* document never saved, or a path of no pipeline configuration
NothingToRefresh ==
    \/ ~currentEngine
    \/ activeDoc = NoDoc
    \/ fileName[activeDoc] = NoPath
    \/ SgtkFromPathFails(Abspath(fileName[activeDoc]))

C21_WitnessNoEngine ==
    /\ lastOp = "refresh_engine"
    /\ ~currentEngine
    /\ activeDoc # NoDoc
    /\ fileName[activeDoc] = "/p/shot2/b.kra"
    /\ calls = <<Call("refresh_engine", NoDoc, None)>>
    /\ engineCtx = None

\* refresh_engine ran on a document saved outside every pipeline
\* configuration and only warned
C21_WitnessTankError ==
    /\ lastOp = "refresh_engine"
    /\ currentEngine
    /\ activeDoc # NoDoc
    /\ fileName[activeDoc] = "/tmp/x.kra"
    /\ engineCtx = "ctxShot1"
    /\ calls = <<Call("refresh_engine", NoDoc, None), Call("display_warning", NoDoc, "no context")>>

====
